---------------------------- MODULE Spec2Model ----------------------------
(* A model of the resilience layer of go-openrouter (pkg/observability.go):   *)
(* the CircuitBreaker and the RetryClient, and of its concurrent dispatcher    *)
(* (pkg/openrouter/concurrent.go): the ConcurrentClient and the                *)
(* BatchProcessor; and of its streaming package (pkg/streaming): the          *)
(* SSEParser, the two stream readers built on it, and the CancellableReader.   *)
(*                                                                             *)
(* The input of the parser is a sequence of lines; a line, like every other    *)
(* text, is a sequence of tokens: " " and "\n" are white space, ":" is the     *)
(* colon, any other token stands for a run of other characters.                *)
(*                                                                             *)
(* A dispatch call starts one goroutine per request; each step of a goroutine  *)
(* that touches the semaphore, the WaitGroup, the results or the result        *)
(* channel is one action, and the steps of all goroutines interleave.          *)
(*                                                                             *)
(* The circuit breaker holds no lock, so its methods are modelled statement    *)
(* by statement: every read and every write of a shared field is one step of   *)
(* the calling goroutine.  With one caller the steps run in program order;     *)
(* with several callers they interleave, which is what the Go build can do     *)
(* with the unsynchronised fields.                                             *)
EXTENDS Integers, Sequences, FiniteSets, TLC

\* ---------------------------------------------------------------- bounds

\* largest failureThreshold a breaker is constructed with
MaxThreshold == 2
\* largest resetTimeout (in clock ticks) a breaker is constructed with
MaxTimeout == 2
\* the clock stops advancing here
MaxTime == 5
\* calls made on one breaker
MaxCalls == 4
\* goroutines sharing one breaker in the concurrent specification
MaxCallers == 2
\* largest RetryConfig.MaxRetries
MaxRetriesLimit == 2
\* largest RetryConfig.InitialDelay and MaxDelay (in clock ticks)
MaxDelayLimit == 2
\* calls of RetryClient.CreateChatCompletionStream
MaxStreamCalls == 2
\* largest maxConcurrency of a ConcurrentClient
MaxConcurrency == 2
\* requests handed to one dispatch call
MaxRequests == 2
\* requests of a second dispatch call overlapping the first on the same client
MaxOverlap == 1
\* chunks one stream delivers before it ends
MaxChunks == 2
\* results the channel buffers per request (the code buffers 10; the model
\* scales the buffer down with the length of its streams, so that it fills)
ChanBufferPerRequest == 1
\* requests handed to BatchProcessor.ProcessBatch
MaxBatchRequests == 3
\* lines of the input an SSEParser is given on its own
MaxLines == 4
\* calls of SSEParser.ParseNext on one parser
MaxParseCalls == 4
\* events of the stream a stream reader is given
MaxEvents == 3
\* calls of Read on one stream reader
MaxReads == 5
\* calls of Read on one CancellableReader
MaxCancelReads == 2
\* calls of Close or Cancel another goroutine makes on a CancellableReader
MaxCloseCalls == 2

VARIABLES
    \* CircuitBreaker fields
    failureThreshold, resetTimeout, failures, lastFailure, state,
    \* the wall clock (time.Now)
    now,
    \* the goroutines calling CircuitBreaker.CreateChatCompletion
    callers, pc, stRead, elapsedRead, failRead, opErr, res, opCalls,
    \* history of the breaker: calls started, consecutive failed operations
    \* since the last successful one, successes, rejections, probes
    nCalls, streak, nSucc, nRej, nProbe, nFail,
    \* RetryConfig fields (JitterFactor in percent)
    MaxRetries, InitialDelay, MaxDelay, BackoffFactor, JitterFactor,
    RetryableErrors,
    \* RetryClient.CreateChatCompletion: position, loop variables, the pending
    \* time.After timer and which select case woke the goroutine
    rpc, attempt, lastErr, timer, woken, ctxDone, result,
    \* requests the embedded Client sent, and what each returned
    invocations, outcomes,
    \* history of the retry call: backoff sleeps entered, the cancellation
    \* that arrived during a sleep
    sleeps, cancelInSleep, invAtCancel,
    \* RetryClient.CreateChatCompletionStream: calls made, the last error
    nStream, streamErr,
    \* ConcurrentClient: maxConcurrency, and the tokens in the semaphore channel
    maxConcurrency, semaphore,
    \* the dispatch calls made on the client: what each will be called with,
    \* its kind, its requests, the spawn loop, the WaitGroup, its position,
    \* the results slice, its context
    plan, kind, requests, spawned, wg, dstate, results, cancelled,
    \* the worker goroutines: position, the index and request parameters,
    \* whether a semaphore slot is held, operations started, chunks read from
    \* the stream, the result about to be sent
    wpc, wIndex, wReq, held, opCount, chunksRead, pending,
    \* the result channel of the streaming dispatch, whether it is closed,
    \* what was sent and received for each index, a send on the closed channel
    resultChan, chanClosed, sentLog, recvLog, sendOnClosed,
    \* BatchProcessor.ProcessBatch: its arguments, the loop, the callbacks made
    \* so far, the return value, the batches dispatched
    bRequests, batchSize, bpc, bi, bj, callbacks, bRet, batches, bSeenCancel,
    \* the input of an SSEParser: its complete lines (each without its line
    \* end) and the text after the last line end; the lines read so far
    lines, tail, pos,
    \* SSEParser.closed, the position of ParseNext, its locals event and
    \* dataBuffer, what it returned last, the ParseNext calls made
    closed, ppc, event, dataBuffer, pOutcome, nParse,
    \* history of the parser: the data values read in the current call, and
    \* what each call returned
    values, parseLog,
    \* a stream reader: which of the two readers it is, the events its
    \* stream is made of, the position of Read, the Read calls made, the
    \* events skipped by the current call, what each call returned
    readerKind, payloads, rdpc, nReads, skipped, readLog,
    \* the body the parser reads through its bufio.Reader: the lines that
    \* have arrived from the server, the lines the bufio.Reader has taken
    \* into its buffer, whether the context of the request is done; and
    \* whether it was done when the current Read call began
    arrived, avail, reqCtxDone, rdAfterCancel,
    \* CancellableReader: closed, whether ctx is done, the holder of mu, the
    \* Close calls the underlying reader has received
    crClosed, crCtx, mu, uCloses,
    \* CancellableReader.Read: its position, the Read calls made, the select
    \* case that woke it, the case its select took, what it returned
    crpc, nCrReads, crWoken, crHow, crRet,
    \* the background goroutine of Read and what its r.reader.Read returned
    bg, bgRet,
    \* the Close call of each goroutine, and the goroutine that calls Close
    \* and Cancel from outside: its position and the calls it has made
    cpc, opc, nOps,
    \* history of the CancellableReader: what each Close call returned, in
    \* the order the calls went through the mutex; whether a background read
    \* has written into the buffer of a Read call that had already returned
    closeLog, lateWrite

breakerVars == <<failureThreshold, resetTimeout, failures, lastFailure, state,
                 now, callers, pc, stRead, elapsedRead, failRead, opErr, res,
                 opCalls, nCalls, streak, nSucc, nRej, nProbe, nFail>>

retryVars == <<MaxRetries, InitialDelay, MaxDelay, BackoffFactor, JitterFactor,
               RetryableErrors, rpc, attempt, lastErr, timer, woken, ctxDone,
               result, invocations, outcomes, sleeps, cancelInSleep,
               invAtCancel, nStream, streamErr>>

dispatchVars == <<maxConcurrency, semaphore, plan, kind, requests, spawned, wg,
                  dstate, results, cancelled, wpc, wIndex, wReq, held, opCount,
                  chunksRead, pending, resultChan, chanClosed, sentLog, recvLog,
                  sendOnClosed>>

batchVars == <<bRequests, batchSize, bpc, bi, bj, callbacks, bRet, batches,
               bSeenCancel>>

parserVars == <<lines, tail, pos, closed, ppc, event, dataBuffer, pOutcome,
                nParse, values, parseLog, arrived, avail, reqCtxDone>>

readerVars == <<readerKind, payloads, rdpc, nReads, skipped, readLog,
                rdAfterCancel>>

cancelVars == <<crClosed, crCtx, mu, uCloses, crpc, nCrReads, crWoken, crHow,
                crRet, bg, bgRet, cpc, opc, nOps, closeLog, lateWrite>>

vars == <<breakerVars, retryVars, dispatchVars, batchVars, parserVars,
          readerVars, cancelVars>>

\* variables of the other components, which a breaker step leaves alone
nonBreakerVars == <<retryVars, dispatchVars, batchVars, parserVars, readerVars,
                    cancelVars>>
\* variables of the other components, which a retry step leaves alone
nonRetryVars == <<breakerVars, dispatchVars, batchVars, parserVars, readerVars,
                  cancelVars>>
\* variables of the other components, which a dispatch step leaves alone
nonDispatchVars == <<breakerVars, retryVars, parserVars, readerVars, cancelVars>>
\* variables of the other components, which a step of a parser or of a stream
\* reader leaves alone
nonStreamVars == <<breakerVars, retryVars, dispatchVars, batchVars, cancelVars>>
\* variables of the other components, which a step on a CancellableReader
\* leaves alone
nonCancelVars == <<breakerVars, retryVars, dispatchVars, batchVars, parserVars,
                   readerVars>>

\* ------------------------------------------------------- CircuitBreaker

CircuitClosed == "Closed"
CircuitOpen == "Open"
CircuitHalfOpen == "HalfOpen"

Procs == 1..MaxCallers

\* the zero time.Time of a fresh breaker: further in the past than any timeout
ZeroTime == 0 - (MaxTime + MaxTimeout + 1)

\* the local state of a goroutine that is not inside a call
NoRead == "none"

NewCircuitBreaker(T, rt) ==
    /\ failureThreshold = T
    /\ resetTimeout = rt
    /\ failures = 0
    /\ lastFailure = ZeroTime
    /\ state = CircuitClosed

BreakerIdle ==
    /\ now = 0
    /\ pc = [p \in Procs |-> "idle"]
    /\ stRead = [p \in Procs |-> NoRead]
    /\ elapsedRead = [p \in Procs |-> -1]
    /\ failRead = [p \in Procs |-> 0]
    /\ opErr = [p \in Procs |-> FALSE]
    /\ res = [p \in Procs |-> "none"]
    /\ opCalls = [p \in Procs |-> 0]
    /\ nCalls = 0
    /\ streak = 0
    /\ nSucc = 0
    /\ nRej = 0
    /\ nProbe = 0
    /\ nFail = 0

\* time.Now advances
Tick ==
    /\ now < MaxTime
    /\ now' = now + 1
    /\ UNCHANGED <<failureThreshold, resetTimeout, failures, lastFailure, state,
                   callers, pc, stRead, elapsedRead, failRead, opErr, res,
                   opCalls, nCalls, streak, nSucc, nRej, nProbe, nFail>>
    /\ UNCHANGED nonBreakerVars

\* a goroutine enters CircuitBreaker.CreateChatCompletion
StartCall(p) ==
    /\ p \in callers
    /\ pc[p] = "idle"
    /\ nCalls < MaxCalls
    /\ nCalls' = nCalls + 1
    /\ pc' = [pc EXCEPT ![p] = "checkState"]
    /\ stRead' = [stRead EXCEPT ![p] = NoRead]
    /\ elapsedRead' = [elapsedRead EXCEPT ![p] = -1]
    /\ res' = [res EXCEPT ![p] = "none"]
    /\ opCalls' = [opCalls EXCEPT ![p] = 0]
    /\ opErr' = [opErr EXCEPT ![p] = FALSE]
    /\ UNCHANGED <<failureThreshold, resetTimeout, failures, lastFailure, state,
                   now, callers, failRead, streak, nSucc, nRej, nProbe, nFail>>
    /\ UNCHANGED nonBreakerVars

\* checkState: switch cb.state
CheckStateSwitch(p) ==
    /\ pc[p] = "checkState"
    /\ stRead' = [stRead EXCEPT ![p] = state]
    /\ pc' = [pc EXCEPT ![p] = IF state = CircuitOpen THEN "checkOpen" ELSE "request"]
    /\ UNCHANGED <<failureThreshold, resetTimeout, failures, lastFailure, state,
                   now, callers, elapsedRead, failRead, opErr, res, opCalls,
                   nCalls, streak, nSucc, nRej, nProbe, nFail>>
    /\ UNCHANGED nonBreakerVars

\* checkState: time.Since(cb.lastFailure) > cb.resetTimeout
ResetTimeoutElapsedLt(elapsed) == elapsed < resetTimeout
ResetTimeoutElapsedLate(elapsed) == elapsed > resetTimeout + 1
ResetTimeoutElapsed(elapsed) == elapsed > resetTimeout

\* checkState, else branch: return fmt.Errorf("circuit breaker is open")
\* writes nothing, so cb.lastFailure stays what it was
LastFailureAfterRejectNow == now
LastFailureAfterReject == lastFailure

\* checkState, case CircuitOpen: to half-open, or "circuit breaker is open"
CheckStateOpen(p) ==
    /\ pc[p] = "checkOpen"
    /\ elapsedRead' = [elapsedRead EXCEPT ![p] = now - lastFailure]
    /\ IF ResetTimeoutElapsed(now - lastFailure)
         THEN /\ state' = CircuitHalfOpen
              /\ pc' = [pc EXCEPT ![p] = "checkReset"]
              /\ nProbe' = nProbe + 1
              /\ UNCHANGED <<res, nRej, lastFailure>>
         ELSE /\ res' = [res EXCEPT ![p] = "rejected"]
              /\ pc' = [pc EXCEPT ![p] = "idle"]
              /\ nRej' = nRej + 1
              /\ lastFailure' = LastFailureAfterReject
              /\ UNCHANGED <<state, nProbe>>
    /\ UNCHANGED <<failureThreshold, resetTimeout, failures,
                   now, callers, stRead, failRead, opErr, opCalls,
                   nCalls, streak, nSucc, nFail>>
    /\ UNCHANGED nonBreakerVars

\* checkState, case CircuitOpen: cb.failures = 0
CheckStateReset(p) ==
    /\ pc[p] = "checkReset"
    /\ failures' = 0
    /\ pc' = [pc EXCEPT ![p] = "request"]
    /\ UNCHANGED <<failureThreshold, resetTimeout, lastFailure, state,
                   now, callers, stRead, elapsedRead, failRead, opErr, res,
                   opCalls, nCalls, streak, nSucc, nRej, nProbe, nFail>>
    /\ UNCHANGED nonBreakerVars

\* cb.client.CreateChatCompletion returns: err == nil or err != nil
Request(p) ==
    /\ pc[p] = "request"
    /\ \E failed \in BOOLEAN :
        /\ opErr' = [opErr EXCEPT ![p] = failed]
        /\ pc' = [pc EXCEPT ![p] = IF failed THEN "recFailRead" ELSE "recSuccState"]
        /\ streak' = IF failed THEN streak + 1 ELSE 0
        /\ nSucc' = IF failed THEN nSucc ELSE nSucc + 1
        /\ nFail' = IF failed THEN nFail + 1 ELSE nFail
    /\ opCalls' = [opCalls EXCEPT ![p] = @ + 1]
    /\ UNCHANGED <<failureThreshold, resetTimeout, failures, lastFailure, state,
                   now, callers, stRead, elapsedRead, failRead, res,
                   nCalls, nRej, nProbe>>
    /\ UNCHANGED nonBreakerVars

\* recordResult, success: if cb.state == CircuitHalfOpen
RecordSuccessState(p) ==
    /\ pc[p] = "recSuccState"
    /\ pc' = [pc EXCEPT ![p] = IF state = CircuitHalfOpen THEN "recSuccClose"
                                                           ELSE "recSuccReset"]
    /\ UNCHANGED <<failureThreshold, resetTimeout, failures, lastFailure, state,
                   now, callers, stRead, elapsedRead, failRead, opErr, res,
                   opCalls, nCalls, streak, nSucc, nRej, nProbe, nFail>>
    /\ UNCHANGED nonBreakerVars

\* recordResult, success: cb.state = CircuitClosed
RecordSuccessClose(p) ==
    /\ pc[p] = "recSuccClose"
    /\ state' = CircuitClosed
    /\ pc' = [pc EXCEPT ![p] = "recSuccReset"]
    /\ UNCHANGED <<failureThreshold, resetTimeout, failures, lastFailure,
                   now, callers, stRead, elapsedRead, failRead, opErr, res,
                   opCalls, nCalls, streak, nSucc, nRej, nProbe, nFail>>
    /\ UNCHANGED nonBreakerVars

\* what a successful call leaves in cb.failures
FailuresAfterSuccessKept == failures
FailuresAfterSuccess == 0

\* recordResult, success: cb.failures = 0, and the call returns
RecordSuccessReset(p) ==
    /\ pc[p] = "recSuccReset"
    /\ failures' = FailuresAfterSuccess
    /\ res' = [res EXCEPT ![p] = "ok"]
    /\ pc' = [pc EXCEPT ![p] = "idle"]
    /\ UNCHANGED <<failureThreshold, resetTimeout, lastFailure, state,
                   now, callers, stRead, elapsedRead, failRead, opErr,
                   opCalls, nCalls, streak, nSucc, nRej, nProbe, nFail>>
    /\ UNCHANGED nonBreakerVars

\* recordResult, failure: cb.failures++ reads the counter
RecordFailureRead(p) ==
    /\ pc[p] = "recFailRead"
    /\ failRead' = [failRead EXCEPT ![p] = failures]
    /\ pc' = [pc EXCEPT ![p] = "recFailWrite"]
    /\ UNCHANGED <<failureThreshold, resetTimeout, failures, lastFailure, state,
                   now, callers, stRead, elapsedRead, opErr, res,
                   opCalls, nCalls, streak, nSucc, nRej, nProbe, nFail>>
    /\ UNCHANGED nonBreakerVars

\* recordResult, failure: cb.failures++ writes the counter
RecordFailureWrite(p) ==
    /\ pc[p] = "recFailWrite"
    /\ failures' = failRead[p] + 1
    /\ pc' = [pc EXCEPT ![p] = "recFailTime"]
    /\ UNCHANGED <<failureThreshold, resetTimeout, lastFailure, state,
                   now, callers, stRead, elapsedRead, failRead, opErr, res,
                   opCalls, nCalls, streak, nSucc, nRej, nProbe, nFail>>
    /\ UNCHANGED nonBreakerVars

\* recordResult, failure: cb.lastFailure = time.Now()
RecordFailureTime(p) ==
    /\ pc[p] = "recFailTime"
    /\ lastFailure' = now
    /\ pc' = [pc EXCEPT ![p] = "recFailCmp"]
    /\ UNCHANGED <<failureThreshold, resetTimeout, failures, state,
                   now, callers, stRead, elapsedRead, failRead, opErr, res,
                   opCalls, nCalls, streak, nSucc, nRej, nProbe, nFail>>
    /\ UNCHANGED nonBreakerVars

\* recordResult, failure: cb.failures >= cb.failureThreshold
ThresholdReachedGt(f) == f > failureThreshold
ThresholdReached(f) == f >= failureThreshold

\* recordResult, failure: the comparison; below the threshold the call returns
RecordFailureCompare(p) ==
    /\ pc[p] = "recFailCmp"
    /\ IF ThresholdReached(failures)
         THEN /\ pc' = [pc EXCEPT ![p] = "recFailOpen"]
              /\ UNCHANGED res
         ELSE /\ pc' = [pc EXCEPT ![p] = "idle"]
              /\ res' = [res EXCEPT ![p] = "fail"]
    /\ UNCHANGED <<failureThreshold, resetTimeout, failures, lastFailure, state,
                   now, callers, stRead, elapsedRead, failRead, opErr,
                   opCalls, nCalls, streak, nSucc, nRej, nProbe, nFail>>
    /\ UNCHANGED nonBreakerVars

\* recordResult, failure: cb.state = CircuitOpen, and the call returns
RecordFailureOpen(p) ==
    /\ pc[p] = "recFailOpen"
    /\ state' = CircuitOpen
    /\ res' = [res EXCEPT ![p] = "fail"]
    /\ pc' = [pc EXCEPT ![p] = "idle"]
    /\ UNCHANGED <<failureThreshold, resetTimeout, failures, lastFailure,
                   now, callers, stRead, elapsedRead, failRead, opErr,
                   opCalls, nCalls, streak, nSucc, nRej, nProbe, nFail>>
    /\ UNCHANGED nonBreakerVars

BreakerStep(p) ==
    \/ StartCall(p)
    \/ CheckStateSwitch(p)
    \/ CheckStateOpen(p)
    \/ CheckStateReset(p)
    \/ Request(p)
    \/ RecordSuccessState(p)
    \/ RecordSuccessClose(p)
    \/ RecordSuccessReset(p)
    \/ RecordFailureRead(p)
    \/ RecordFailureWrite(p)
    \/ RecordFailureTime(p)
    \/ RecordFailureCompare(p)
    \/ RecordFailureOpen(p)

NextBreaker == Tick \/ \E p \in Procs : BreakerStep(p)

\* ----------------------------------------------------------- RetryClient

\* errors.ErrorCode values the server answers with
ErrorCodeBadRequest == 400
ErrorCodeRateLimited == 429
ErrorCodeNoAvailableModel == 503
ErrorCodes == {ErrorCodeBadRequest, ErrorCodeRateLimited, ErrorCodeNoAvailableModel}

\* error values: an *errors.APIError with its code, any other error of the
\* transport, ctx.Err(), or nil; n is the request that produced it
NoErr == [kind |-> "nil", code |-> 0, n |-> 0]
APIError(c, n) == [kind |-> "api", code |-> c, n |-> n]
OtherError(n) == [kind |-> "other", code |-> 0, n |-> n]
CtxErr == [kind |-> "ctx", code |-> 0, n |-> 0]

\* what a call returns: (resp, err); wrapped marks
\* fmt.Errorf("max retries exceeded: %w", err)
Returned(resp, wrapped, err) == [resp |-> resp, wrapped |-> wrapped, err |-> err]
NoResult == Returned(FALSE, FALSE, NoErr)

\* what r.Client.CreateChatCompletion can return for request n: with the
\* context cancelled the transport fails; otherwise a response, an API error
\* or a transport error
RequestOutcomes(n) ==
    IF ctxDone THEN {OtherError(n)}
    ELSE {NoErr} \cup {APIError(c, n) : c \in ErrorCodes} \cup {OtherError(n)}

RECURSIVE Pow(_, _)
Pow(b, e) == IF e = 0 THEN 1 ELSE b * Pow(b, e - 1)

\* calculateDelay without the jitter: backoff, then the MaxDelay cap
NominalDelayUncapped(n) == InitialDelay * Pow(BackoffFactor, n - 1)
NominalDelay(n) ==
    LET delay == InitialDelay * Pow(BackoffFactor, n - 1)
    IN  IF delay > MaxDelay THEN MaxDelay ELSE delay

\* the jitter calculateDelay can add: delay * JitterFactor * (2*rand - 1)
JitterRange(delay) ==
    LET j == (delay * JitterFactor) \div 100 IN (0 - j)..j

\* calculateDelay: the delays the call can compute for an attempt
calculateDelay(n) == {NominalDelay(n) + j : j \in JitterRange(NominalDelay(n))}

\* isRetryable: an *errors.APIError whose code RetryableErrors maps to true
isRetryableAnyAPIError(err) == err.kind = "api"
isRetryable(err) == err.kind = "api" /\ err.code \in RetryableErrors

\* the loop condition: attempt <= r.config.MaxRetries
LoopConditionStrict(a) == a < MaxRetries
LoopCondition(a) == a <= MaxRetries

\* what the call returns when a request succeeds: return resp, nil
SuccessReturnStale == Returned(TRUE, FALSE, lastErr)
SuccessReturn == Returned(TRUE, FALSE, NoErr)

\* the select case a cancellation wakes a sleeping call with: <-ctx.Done()
CancelWakesNone == "none"
CancelWakes == "ctx"

\* what CreateChatCompletionStream does: no request, a fixed error
StreamReturnDelegated == [sent |-> 1, err |-> "nil"]
StreamReturn == [sent |-> 0, err |-> "retry not supported for streaming"]

RetryConfigs ==
    [MaxRetries : 0..MaxRetriesLimit,
     InitialDelay : 1..MaxDelayLimit,
     MaxDelay : {0, MaxDelayLimit},
     BackoffFactor : {2},
     JitterFactor : {0, 50},
     RetryableErrors : {{}, {ErrorCodeNoAvailableModel},
                        {ErrorCodeRateLimited, ErrorCodeNoAvailableModel}}]

\* a RetryClient with configuration c, no call made yet
NewRetryClient(c) ==
    /\ MaxRetries = c.MaxRetries
    /\ InitialDelay = c.InitialDelay
    /\ MaxDelay = c.MaxDelay
    /\ BackoffFactor = c.BackoffFactor
    /\ JitterFactor = c.JitterFactor
    /\ RetryableErrors = c.RetryableErrors
    /\ rpc = "idle"
    /\ attempt = 0
    /\ lastErr = NoErr
    /\ timer = 0
    /\ woken = "none"
    /\ ctxDone = FALSE
    /\ result = NoResult
    /\ invocations = 0
    /\ outcomes = <<>>
    /\ sleeps = 0
    /\ cancelInSleep = FALSE
    /\ invAtCancel = 0
    /\ nStream = 0
    /\ streamErr = "none"

\* CreateChatCompletion is entered: var lastErr error; attempt := 0
RetryStart ==
    /\ rpc = "idle"
    /\ rpc' = "loop"
    /\ attempt' = 0
    /\ lastErr' = NoErr
    /\ UNCHANGED <<MaxRetries, InitialDelay, MaxDelay, BackoffFactor,
                   JitterFactor, RetryableErrors, timer, woken, ctxDone,
                   result, invocations, outcomes, sleeps, cancelInSleep,
                   invAtCancel, nStream, streamErr>>
    /\ UNCHANGED nonRetryVars

\* the head of the loop: leave it with "max retries exceeded", start the
\* backoff timer of a retry, or go straight to the first request
RetryLoop ==
    /\ rpc = "loop"
    /\ IF ~LoopCondition(attempt)
         THEN /\ rpc' = "done"
              /\ result' = Returned(FALSE, TRUE, lastErr)
              /\ UNCHANGED <<timer, sleeps>>
         ELSE IF attempt > 0
         THEN /\ \E delay \in calculateDelay(attempt) : timer' = delay
              /\ rpc' = "select"
              /\ sleeps' = sleeps + 1
              /\ UNCHANGED result
         ELSE /\ rpc' = "request"
              /\ UNCHANGED <<timer, sleeps, result>>
    /\ UNCHANGED <<MaxRetries, InitialDelay, MaxDelay, BackoffFactor,
                   JitterFactor, RetryableErrors, attempt, lastErr, woken,
                   ctxDone, invocations, outcomes, cancelInSleep,
                   invAtCancel, nStream, streamErr>>
    /\ UNCHANGED nonRetryVars

\* the select is evaluated: a ready case is taken (any one, if both are
\* ready), otherwise the goroutine blocks on both channels
RetrySelect ==
    /\ rpc = "select"
    /\ LET ready == {c \in {"ctx"} : ctxDone} \cup {c \in {"timer"} : timer = 0}
       IN  IF ready = {} THEN woken' = "none" ELSE \E c \in ready : woken' = c
    /\ rpc' = "sleep"
    /\ UNCHANGED <<MaxRetries, InitialDelay, MaxDelay, BackoffFactor,
                   JitterFactor, RetryableErrors, attempt, lastErr, timer,
                   ctxDone, result, invocations, outcomes, sleeps,
                   cancelInSleep, invAtCancel, nStream, streamErr>>
    /\ UNCHANGED nonRetryVars

\* time passes for the time.After timer; when it expires it wakes a
\* goroutine that is still blocked
RetryTick ==
    /\ rpc \in {"select", "sleep"}
    /\ timer > 0
    /\ timer' = timer - 1
    /\ woken' = IF rpc = "sleep" /\ woken = "none" /\ timer = 1
                  THEN "timer" ELSE woken
    /\ UNCHANGED <<MaxRetries, InitialDelay, MaxDelay, BackoffFactor,
                   JitterFactor, RetryableErrors, rpc, attempt, lastErr,
                   ctxDone, result, invocations, outcomes, sleeps,
                   cancelInSleep, invAtCancel, nStream, streamErr>>
    /\ UNCHANGED nonRetryVars

\* the caller's context is cancelled; a goroutine blocked in the select is
\* woken through ctx.Done()
Cancel ==
    /\ ~ctxDone
    /\ rpc # "done"
    /\ ctxDone' = TRUE
    /\ IF rpc = "sleep" /\ woken = "none"
         THEN /\ woken' = CancelWakes
              /\ cancelInSleep' = TRUE
              /\ invAtCancel' = invocations
         ELSE UNCHANGED <<woken, cancelInSleep, invAtCancel>>
    /\ UNCHANGED <<MaxRetries, InitialDelay, MaxDelay, BackoffFactor,
                   JitterFactor, RetryableErrors, rpc, attempt, lastErr,
                   timer, result, invocations, outcomes, sleeps, nStream,
                   streamErr>>
    /\ UNCHANGED nonRetryVars

\* the select returns: return nil, ctx.Err(), or fall through to the request
RetryWake ==
    /\ rpc = "sleep"
    /\ woken # "none"
    /\ IF woken = "ctx"
         THEN /\ rpc' = "done"
              /\ result' = Returned(FALSE, FALSE, CtxErr)
         ELSE /\ rpc' = "request"
              /\ UNCHANGED result
    /\ woken' = "none"
    /\ UNCHANGED <<MaxRetries, InitialDelay, MaxDelay, BackoffFactor,
                   JitterFactor, RetryableErrors, attempt, lastErr, timer,
                   ctxDone, invocations, outcomes, sleeps, cancelInSleep,
                   invAtCancel, nStream, streamErr>>
    /\ UNCHANGED nonRetryVars

\* one request and what follows it in the loop body: return the response,
\* return a non-retryable error as it is, or go on to the next attempt
RetryRequest ==
    /\ rpc = "request"
    /\ invocations' = invocations + 1
    /\ \E err \in RequestOutcomes(invocations + 1) :
        /\ outcomes' = Append(outcomes, err)
        /\ IF err = NoErr
             THEN /\ rpc' = "done"
                  /\ result' = SuccessReturn
                  /\ UNCHANGED <<lastErr, attempt>>
             ELSE IF ~isRetryable(err)
             THEN /\ rpc' = "done"
                  /\ lastErr' = err
                  /\ result' = Returned(FALSE, FALSE, err)
                  /\ UNCHANGED attempt
             ELSE /\ rpc' = "loop"
                  /\ lastErr' = err
                  /\ attempt' = attempt + 1
                  /\ UNCHANGED result
    /\ UNCHANGED <<MaxRetries, InitialDelay, MaxDelay, BackoffFactor,
                   JitterFactor, RetryableErrors, timer, woken, ctxDone,
                   sleeps, cancelInSleep, invAtCancel, nStream, streamErr>>
    /\ UNCHANGED nonRetryVars

\* RetryClient.CreateChatCompletionStream
RetryStream ==
    /\ nStream < MaxStreamCalls
    /\ nStream' = nStream + 1
    /\ streamErr' = StreamReturn.err
    /\ invocations' = invocations + StreamReturn.sent
    /\ UNCHANGED <<MaxRetries, InitialDelay, MaxDelay, BackoffFactor,
                   JitterFactor, RetryableErrors, rpc, attempt, lastErr,
                   timer, woken, ctxDone, result, outcomes, sleeps,
                   cancelInSleep, invAtCancel>>
    /\ UNCHANGED nonRetryVars

NextRetry ==
    \/ RetryStart
    \/ RetryLoop
    \/ RetrySelect
    \/ RetryTick
    \/ Cancel
    \/ RetryWake
    \/ RetryRequest
    \/ RetryStream

\* ------------------------------------------------------ ConcurrentClient

Dispatches == {1, 2}
WorkerIds == Dispatches \X (0..(MaxRequests - 1))

\* ChatCompletionResult; Response is the request answered (0: nil), Error is
\* "nil", the operation's error or ctx.Err()
ChatCompletionResult(resp, err, index) ==
    [Response |-> resp, Error |-> err, Index |-> index]
ZeroResult == ChatCompletionResult(0, "nil", 0)

\* StreamingResult; Stream is the number of the chunk in its stream (0: nil)
StreamingResult(chunk, err, index, final) ==
    [Stream |-> chunk, Error |-> err, Index |-> index, Final |-> final]
NoPending == StreamingResult(0, "nil", 0, FALSE)

\* NewConcurrentClient: an empty semaphore of capacity maxConcurrency, and no
\* dispatch call made yet
NewConcurrentClient(m) ==
    /\ maxConcurrency = m
    /\ semaphore = 0
    /\ kind = [d \in Dispatches |-> "none"]
    /\ requests = [d \in Dispatches |-> <<>>]
    /\ spawned = [d \in Dispatches |-> 0]
    /\ wg = [d \in Dispatches |-> 0]
    /\ dstate = [d \in Dispatches |-> "idle"]
    /\ results = [d \in Dispatches |-> <<>>]
    /\ cancelled = [d \in Dispatches |-> FALSE]
    /\ wpc = [w \in WorkerIds |-> "none"]
    /\ wIndex = [w \in WorkerIds |-> 0]
    /\ wReq = [w \in WorkerIds |-> 0]
    /\ held = [w \in WorkerIds |-> FALSE]
    /\ opCount = [w \in WorkerIds |-> 0]
    /\ chunksRead = [w \in WorkerIds |-> 0]
    /\ pending = [w \in WorkerIds |-> NoPending]
    /\ resultChan = <<>>
    /\ chanClosed = FALSE
    /\ sentLog = <<>>
    /\ recvLog = <<>>
    /\ sendOnClosed = FALSE

\* the workers of dispatch d go back to "not started" when d is called
ResetWorkers(f, d, v) == [w \in WorkerIds |-> IF w[1] = d THEN v ELSE f[w]]

\* CreateChatCompletionsConcurrent is entered with reqs:
\* results := make([]ChatCompletionResult, len(requests)); var wg
CallConcurrent(d, reqs) ==
    /\ kind' = [kind EXCEPT ![d] = "single"]
    /\ requests' = [requests EXCEPT ![d] = reqs]
    /\ results' = [results EXCEPT ![d] = [i \in 1..Len(reqs) |-> ZeroResult]]
    /\ spawned' = [spawned EXCEPT ![d] = 0]
    /\ wg' = [wg EXCEPT ![d] = 0]
    /\ dstate' = [dstate EXCEPT ![d] = "spawning"]
    /\ wpc' = ResetWorkers(wpc, d, "none")
    /\ wIndex' = ResetWorkers(wIndex, d, 0)
    /\ wReq' = ResetWorkers(wReq, d, 0)
    /\ opCount' = ResetWorkers(opCount, d, 0)
    /\ UNCHANGED <<maxConcurrency, semaphore, plan, cancelled, held,
                   chunksRead, pending, resultChan, chanClosed, sentLog,
                   recvLog, sendOnClosed>>

\* a caller invokes CreateChatCompletionsConcurrent
DispatchConcurrent(d) ==
    /\ dstate[d] = "idle"
    /\ plan[d].kind = "single"
    /\ CallConcurrent(d, plan[d].requests)
    /\ UNCHANGED batchVars
    /\ UNCHANGED nonDispatchVars

\* the index a worker goroutine is started with: go func(index, request)(i, req)
SpawnIndexLast(d, i) == Len(requests[d]) - 1
SpawnIndex(d, i) == i

\* one iteration of the loop over the requests: wg.Add(1); go func(...)(i, req)
Spawn(d) ==
    /\ dstate[d] = "spawning"
    /\ spawned[d] < Len(requests[d])
    /\ LET i == spawned[d]
           w == <<d, i>>
       IN  /\ wpc' = [wpc EXCEPT ![w] = "wait"]
           /\ wIndex' = [wIndex EXCEPT ![w] = SpawnIndex(d, i)]
           /\ wReq' = [wReq EXCEPT ![w] = requests[d][i + 1]]
    /\ spawned' = [spawned EXCEPT ![d] = @ + 1]
    /\ wg' = [wg EXCEPT ![d] = @ + 1]
    /\ UNCHANGED <<maxConcurrency, semaphore, plan, kind, requests, dstate,
                   results, cancelled, held, opCount, chunksRead, pending,
                   resultChan, chanClosed, sentLog, recvLog, sendOnClosed>>
    /\ UNCHANGED batchVars
    /\ UNCHANGED nonDispatchVars

\* the semaphore channel accepts a send: it holds fewer than cap tokens
SemaphoreHasRoomOver == semaphore <= maxConcurrency
SemaphoreHasRoom == semaphore < maxConcurrency

\* select, case c.semaphore <- struct{}{}: the worker takes a slot and starts
\* its operation
Acquire(w) ==
    /\ wpc[w] = "wait"
    /\ SemaphoreHasRoom
    /\ semaphore' = semaphore + 1
    /\ held' = [held EXCEPT ![w] = TRUE]
    /\ wpc' = [wpc EXCEPT ![w] = IF kind[w[1]] = "single" THEN "request" ELSE "create"]
    /\ UNCHANGED <<maxConcurrency, plan, kind, requests, spawned, wg, dstate,
                   results, cancelled, wIndex, wReq, opCount, chunksRead,
                   pending, resultChan, chanClosed, sentLog, recvLog,
                   sendOnClosed>>
    /\ UNCHANGED batchVars
    /\ UNCHANGED nonDispatchVars

\* the caller's context of dispatch d is cancelled
CancelDispatch(d) ==
    /\ dstate[d] # "idle"
    /\ ~cancelled[d]
    /\ cancelled' = [cancelled EXCEPT ![d] = TRUE]
    /\ UNCHANGED <<maxConcurrency, semaphore, plan, kind, requests, spawned,
                   wg, dstate, results, wpc, wIndex, wReq, held, opCount,
                   chunksRead, pending, resultChan, chanClosed, sentLog,
                   recvLog, sendOnClosed>>
    /\ UNCHANGED batchVars
    /\ UNCHANGED nonDispatchVars

\* what the slice holds after a worker stores result r under its index
StoreResult(d, index, r) == [results EXCEPT ![d][index + 1] = r]

\* where a worker goes from the <-ctx.Done() case: it returns, and only the
\* deferred wg.Done() runs (the release is deferred in the other case)
AfterCancelWaitReleases == "release"
AfterCancelWait == "wgdone"

\* CreateChatCompletionsConcurrent, select, case <-ctx.Done(): the result is
\* ctx.Err() under the worker's index; return (wg.Done is deferred)
CancelWaitConcurrent(w) ==
    /\ wpc[w] = "wait"
    /\ kind[w[1]] = "single"
    /\ cancelled[w[1]]
    /\ results' = StoreResult(w[1], wIndex[w],
                              ChatCompletionResult(0, "ctx", wIndex[w]))
    /\ wpc' = [wpc EXCEPT ![w] = AfterCancelWait]
    /\ UNCHANGED <<maxConcurrency, semaphore, plan, kind, requests, spawned,
                   wg, dstate, cancelled, wIndex, wReq, held, opCount,
                   chunksRead, pending, resultChan, chanClosed, sentLog,
                   recvLog, sendOnClosed>>
    /\ UNCHANGED batchVars
    /\ UNCHANGED nonDispatchVars

\* c.CreateChatCompletion(ctx, request) returns, and the worker stores
\* {resp, err, index}: a response to the request, or an error (the only
\* outcome once the context is cancelled)
ExecuteRequest(w) ==
    /\ wpc[w] = "request"
    /\ opCount' = [opCount EXCEPT ![w] = @ + 1]
    /\ \E ok \in (IF cancelled[w[1]] THEN {FALSE} ELSE BOOLEAN) :
        results' = StoreResult(w[1], wIndex[w],
                       IF ok THEN ChatCompletionResult(wReq[w], "nil", wIndex[w])
                             ELSE ChatCompletionResult(0, "err", wIndex[w]))
    /\ wpc' = [wpc EXCEPT ![w] = "release"]
    /\ UNCHANGED <<maxConcurrency, semaphore, plan, kind, requests, spawned,
                   wg, dstate, cancelled, wIndex, wReq, held, chunksRead,
                   pending, resultChan, chanClosed, sentLog, recvLog,
                   sendOnClosed>>
    /\ UNCHANGED batchVars
    /\ UNCHANGED nonDispatchVars

\* the tokens left in the semaphore after the deferred <-c.semaphore
SemaphoreKept == semaphore
SemaphoreReleased == semaphore - 1

\* the deferred func() { <-c.semaphore }() runs
Release(w) ==
    /\ wpc[w] = "release"
    /\ semaphore' = SemaphoreReleased
    /\ held' = [held EXCEPT ![w] = FALSE]
    /\ wpc' = [wpc EXCEPT ![w] = "wgdone"]
    /\ UNCHANGED <<maxConcurrency, plan, kind, requests, spawned, wg, dstate,
                   results, cancelled, wIndex, wReq, opCount, chunksRead,
                   pending, resultChan, chanClosed, sentLog, recvLog,
                   sendOnClosed>>
    /\ UNCHANGED batchVars
    /\ UNCHANGED nonDispatchVars

\* the deferred wg.Done() runs and the goroutine ends
WorkerDone(w) ==
    /\ wpc[w] = "wgdone"
    /\ wg' = [wg EXCEPT ![w[1]] = @ - 1]
    /\ wpc' = [wpc EXCEPT ![w] = "done"]
    /\ UNCHANGED <<maxConcurrency, semaphore, plan, kind, requests, spawned,
                   dstate, results, cancelled, wIndex, wReq, held, opCount,
                   chunksRead, pending, resultChan, chanClosed, sentLog,
                   recvLog, sendOnClosed>>
    /\ UNCHANGED batchVars
    /\ UNCHANGED nonDispatchVars

\* wg.Wait() lets the dispatch go on: every goroutine was started and the
\* counter is back to zero
WaitGroupEarly(d) == spawned[d] = Len(requests[d])
WaitGroupDone(d) == spawned[d] = Len(requests[d]) /\ wg[d] = 0

\* CreateChatCompletionsConcurrent: wg.Wait() returns; return results
ReturnConcurrent(d) ==
    /\ dstate[d] = "spawning"
    /\ kind[d] = "single"
    /\ WaitGroupDone(d)
    /\ dstate' = [dstate EXCEPT ![d] = "returned"]
    /\ UNCHANGED <<maxConcurrency, semaphore, plan, kind, requests, spawned,
                   wg, results, cancelled, wpc, wIndex, wReq, held, opCount,
                   chunksRead, pending, resultChan, chanClosed, sentLog,
                   recvLog, sendOnClosed>>
    /\ UNCHANGED batchVars
    /\ UNCHANGED nonDispatchVars

\* make(chan StreamingResult, len(requests)*10): the buffer of the channel
ChanCapacity(n) == n * ChanBufferPerRequest

\* CreateChatCompletionsStreamConcurrent is called: the channel is made, the
\* dispatching goroutine is started and the channel is returned to the caller
DispatchStream(d) ==
    /\ dstate[d] = "idle"
    /\ plan[d].kind = "stream"
    /\ kind' = [kind EXCEPT ![d] = "stream"]
    /\ requests' = [requests EXCEPT ![d] = plan[d].requests]
    /\ dstate' = [dstate EXCEPT ![d] = "spawning"]
    /\ resultChan' = <<>>
    /\ chanClosed' = FALSE
    /\ sentLog' = [i \in 0..(Len(plan[d].requests) - 1) |-> <<>>]
    /\ recvLog' = [i \in 0..(Len(plan[d].requests) - 1) |-> <<>>]
    /\ UNCHANGED <<maxConcurrency, semaphore, plan, spawned, wg, results,
                   cancelled, wpc, wIndex, wReq, held, opCount, chunksRead,
                   pending, sendOnClosed>>
    /\ UNCHANGED batchVars
    /\ UNCHANGED nonDispatchVars

\* CreateChatCompletionsStreamConcurrent, select, case <-ctx.Done(): the final
\* result {ctx.Err(), index, Final: true} is to be sent; no slot was taken
CancelWaitStream(w) ==
    /\ wpc[w] = "wait"
    /\ kind[w[1]] = "stream"
    /\ cancelled[w[1]]
    /\ pending' = [pending EXCEPT ![w] = StreamingResult(0, "ctx", wIndex[w], TRUE)]
    /\ wpc' = [wpc EXCEPT ![w] = "send"]
    /\ UNCHANGED <<maxConcurrency, semaphore, plan, kind, requests, spawned,
                   wg, dstate, results, cancelled, wIndex, wReq, held, opCount,
                   chunksRead, resultChan, chanClosed, sentLog, recvLog,
                   sendOnClosed>>
    /\ UNCHANGED batchVars
    /\ UNCHANGED nonDispatchVars

\* c.CreateChatCompletionStream(ctx, request) returns: a stream to read, or
\* an error, which becomes the final result of the index
CreateStream(w) ==
    /\ wpc[w] = "create"
    /\ opCount' = [opCount EXCEPT ![w] = @ + 1]
    /\ \E ok \in (IF cancelled[w[1]] THEN {FALSE} ELSE BOOLEAN) :
        IF ok
          THEN /\ wpc' = [wpc EXCEPT ![w] = "read"]
               /\ chunksRead' = [chunksRead EXCEPT ![w] = 0]
               /\ UNCHANGED pending
          ELSE /\ wpc' = [wpc EXCEPT ![w] = "send"]
               /\ pending' = [pending EXCEPT ![w] =
                                  StreamingResult(0, "err", wIndex[w], TRUE)]
               /\ UNCHANGED chunksRead
    /\ UNCHANGED <<maxConcurrency, semaphore, plan, kind, requests, spawned,
                   wg, dstate, results, cancelled, wIndex, wReq, held,
                   resultChan, chanClosed, sentLog, recvLog, sendOnClosed>>
    /\ UNCHANGED batchVars
    /\ UNCHANGED nonDispatchVars

\* stream.Read() returns: the next chunk, "EOF" or another error
ReadStream(w) ==
    /\ wpc[w] = "read"
    /\ \/ /\ chunksRead[w] < MaxChunks
          /\ chunksRead' = [chunksRead EXCEPT ![w] = @ + 1]
          /\ pending' = [pending EXCEPT ![w] =
                 StreamingResult(chunksRead[w] + 1, "nil", wIndex[w], FALSE)]
       \/ /\ \E err \in {"nil", "err"} :
                 pending' = [pending EXCEPT ![w] =
                                 StreamingResult(0, err, wIndex[w], TRUE)]
          /\ UNCHANGED chunksRead
    /\ wpc' = [wpc EXCEPT ![w] = "send"]
    /\ UNCHANGED <<maxConcurrency, semaphore, plan, kind, requests, spawned,
                   wg, dstate, results, cancelled, wIndex, wReq, held, opCount,
                   resultChan, chanClosed, sentLog, recvLog, sendOnClosed>>
    /\ UNCHANGED batchVars
    /\ UNCHANGED nonDispatchVars

\* the channel's buffer after a send: first in, first out
ChanSendFront(q, m) == <<m>> \o q
ChanSend(q, m) == Append(q, m)

\* where a worker goes after sending a result: on to the next Read, or, after
\* a final result, out of the goroutine through its deferred calls
AfterSendKeepsReading(w) == "read"
AfterSend(w) ==
    IF ~pending[w].Final THEN "read"
    ELSE IF held[w] THEN "release" ELSE "wgdone"

\* resultChan <- StreamingResult{...}: blocks while the buffer is full;
\* a send on a closed channel panics
SendResult(w) ==
    /\ wpc[w] = "send"
    /\ IF chanClosed
         THEN /\ sendOnClosed' = TRUE
              /\ wpc' = [wpc EXCEPT ![w] = "panic"]
              /\ UNCHANGED <<resultChan, sentLog>>
         ELSE /\ Len(resultChan) < ChanCapacity(Len(requests[w[1]]))
              /\ resultChan' = ChanSend(resultChan, pending[w])
              /\ sentLog' = [sentLog EXCEPT ![pending[w].Index] =
                                                     Append(@, pending[w])]
              /\ wpc' = [wpc EXCEPT ![w] = AfterSend(w)]
              /\ UNCHANGED sendOnClosed
    /\ pending' = [pending EXCEPT ![w] = NoPending]
    /\ chunksRead' = [chunksRead EXCEPT ![w] = IF pending[w].Final THEN 0 ELSE @]
    /\ UNCHANGED <<maxConcurrency, semaphore, plan, kind, requests, spawned,
                   wg, dstate, results, cancelled, wIndex, wReq, held, opCount,
                   chanClosed, recvLog>>
    /\ UNCHANGED batchVars
    /\ UNCHANGED nonDispatchVars

\* the dispatching goroutine: wg.Wait() returns, the deferred close(resultChan)
CloseChan(d) ==
    /\ dstate[d] = "spawning"
    /\ kind[d] = "stream"
    /\ WaitGroupDone(d)
    /\ dstate' = [dstate EXCEPT ![d] = "returned"]
    /\ chanClosed' = TRUE
    /\ UNCHANGED <<maxConcurrency, semaphore, plan, kind, requests, spawned,
                   wg, results, cancelled, wpc, wIndex, wReq, held, opCount,
                   chunksRead, pending, resultChan, sentLog, recvLog,
                   sendOnClosed>>
    /\ UNCHANGED batchVars
    /\ UNCHANGED nonDispatchVars

\* the caller receives the next result from the channel
Receive ==
    /\ resultChan # <<>>
    /\ resultChan' = Tail(resultChan)
    /\ recvLog' = [recvLog EXCEPT ![Head(resultChan).Index] =
                                           Append(@, Head(resultChan))]
    /\ UNCHANGED <<maxConcurrency, semaphore, plan, kind, requests, spawned,
                   wg, dstate, results, cancelled, wpc, wIndex, wReq, held,
                   opCount, chunksRead, pending, chanClosed, sentLog,
                   sendOnClosed>>
    /\ UNCHANGED batchVars
    /\ UNCHANGED nonDispatchVars

\* a step of the goroutine of one request
WorkerStep(w) ==
    \/ Acquire(w)
    \/ CancelWaitConcurrent(w)
    \/ ExecuteRequest(w)
    \/ Release(w)
    \/ WorkerDone(w)

\* a step only a streaming worker takes
StreamWorkerStep(w) ==
    \/ CancelWaitStream(w)
    \/ CreateStream(w)
    \/ ReadStream(w)
    \/ SendResult(w)

NextDispatch ==
    \/ \E d \in Dispatches :
          \/ DispatchConcurrent(d)
          \/ DispatchStream(d)
          \/ Spawn(d)
          \/ CancelDispatch(d)
          \/ ReturnConcurrent(d)
          \/ CloseChan(d)
    \/ \E w \in WorkerIds : WorkerStep(w)
    \/ \E w \in WorkerIds : StreamWorkerStep(w)
    \/ Receive

\* one streaming dispatch on its own: the steps of its goroutines, of the
\* consumer of the channel and of the owner of the context
NextStream ==
    \/ DispatchStream(1)
    \/ Spawn(1)
    \/ CancelDispatch(1)
    \/ CloseChan(1)
    \/ \E w \in WorkerIds :
          \/ Acquire(w)
          \/ Release(w)
          \/ WorkerDone(w)
          \/ StreamWorkerStep(w)
    \/ Receive

\* the select of a waiting worker goes on once one of its cases is ready
SelectStream(w) == Acquire(w) \/ CancelWaitStream(w)

\* every goroutine that can run does run (the Go scheduler starves none),
\* every stream creation and every stream read returns, and the consumer
\* keeps receiving; nothing obliges the context to be cancelled
FairStream ==
    /\ WF_vars(Spawn(1))
    /\ WF_vars(CloseChan(1))
    /\ WF_vars(Receive)
    /\ \A w \in WorkerIds :
          /\ WF_vars(SelectStream(w))
          /\ WF_vars(CreateStream(w))
          /\ WF_vars(ReadStream(w))
          /\ WF_vars(SendResult(w))
          /\ WF_vars(Release(w))
          /\ WF_vars(WorkerDone(w))

\* the same for the goroutines of the dispatch, while nothing obliges the
\* consumer to receive: it may stop at any time
FairStreamWorkers ==
    /\ WF_vars(Spawn(1))
    /\ WF_vars(CloseChan(1))
    /\ \A w \in WorkerIds :
          /\ WF_vars(SelectStream(w))
          /\ WF_vars(CreateStream(w))
          /\ WF_vars(ReadStream(w))
          /\ WF_vars(SendResult(w))
          /\ WF_vars(Release(w))
          /\ WF_vars(WorkerDone(w))

\* --------------------------------------------------------- BatchProcessor

\* NewBatchProcessor: the client and the batch size
NewBatchProcessor(size) ==
    /\ batchSize = size
    /\ bpc = "idle"
    /\ bi = 0
    /\ bj = 0
    /\ callbacks = <<>>
    /\ bRet = "none"
    /\ batches = 0
    /\ bSeenCancel = FALSE

\* end := i + p.batchSize; if end > len(requests) { end = len(requests) }
BatchEnd(i) ==
    IF i + batchSize > Len(bRequests) THEN Len(bRequests) ELSE i + batchSize

\* requests[i:end]
Slice(seq, i, end) == SubSeq(seq, i + 1, end)

\* the loop's post statement: i += p.batchSize
NextBatchStartByOne(i) == i + 1
NextBatchStart(i) == i + batchSize

\* select { case <-ctx.Done(): ...; default: }
CtxDoneNever == FALSE
CtxDone == cancelled[1]

\* ProcessBatch is called: i := 0
BatchCall ==
    /\ bpc = "idle"
    /\ bpc' = "loop"
    /\ bi' = 0
    /\ UNCHANGED <<bRequests, batchSize, bj, callbacks, bRet, batches,
                   bSeenCancel>>
    /\ UNCHANGED dispatchVars
    /\ UNCHANGED nonDispatchVars

\* the loop condition i < len(requests): the next batch is cut and handed to
\* CreateChatCompletionsConcurrent, or the loop ends and ProcessBatch returns
\* nil
BatchLoop ==
    /\ bpc = "loop"
    /\ IF bi < Len(bRequests)
         THEN /\ CallConcurrent(1, Slice(bRequests, bi, BatchEnd(bi)))
              /\ bpc' = "dispatch"
              /\ bj' = 0
              /\ batches' = batches + 1
              /\ UNCHANGED bRet
         ELSE /\ bpc' = "returned"
              /\ bRet' = "nil"
              /\ UNCHANGED <<bj, batches>>
              /\ UNCHANGED dispatchVars
    /\ UNCHANGED <<bRequests, batchSize, bi, callbacks, bSeenCancel>>
    /\ UNCHANGED nonDispatchVars

\* for _, result := range results { callback(result) }: one call of the
\* callback, recorded with the request the result belongs to and the number
\* of the batch
BatchCallback ==
    /\ bpc = "dispatch"
    /\ dstate[1] = "returned"
    /\ bj < Len(results[1])
    /\ callbacks' = Append(callbacks, [Result |-> results[1][bj + 1],
                                       Request |-> requests[1][bj + 1],
                                       Batch |-> batches])
    /\ bj' = bj + 1
    /\ UNCHANGED <<bRequests, batchSize, bpc, bi, bRet, batches, bSeenCancel>>
    /\ UNCHANGED dispatchVars
    /\ UNCHANGED nonDispatchVars

\* the check after the callbacks of a batch: return ctx.Err() if the context
\* is done, else go on with the next batch
BatchCheck ==
    /\ bpc = "dispatch"
    /\ dstate[1] = "returned"
    /\ bj = Len(results[1])
    /\ bSeenCancel' = (bSeenCancel \/ cancelled[1])
    /\ IF CtxDone
         THEN /\ bpc' = "returned"
              /\ bRet' = "ctx"
              /\ UNCHANGED bi
         ELSE /\ bpc' = "loop"
              /\ bi' = NextBatchStart(bi)
              /\ UNCHANGED bRet
    /\ UNCHANGED <<bRequests, batchSize, bj, callbacks, batches>>
    /\ UNCHANGED dispatchVars
    /\ UNCHANGED nonDispatchVars

\* the context given to ProcessBatch is cancelled, before or during the call
CancelBatch ==
    /\ bpc # "returned"
    /\ ~cancelled[1]
    /\ cancelled' = [cancelled EXCEPT ![1] = TRUE]
    /\ UNCHANGED <<maxConcurrency, semaphore, plan, kind, requests, spawned,
                   wg, dstate, results, wpc, wIndex, wReq, held, opCount,
                   chunksRead, pending, resultChan, chanClosed, sentLog,
                   recvLog, sendOnClosed>>
    /\ UNCHANGED batchVars
    /\ UNCHANGED nonDispatchVars

\* ProcessBatch, the dispatch of the current batch and its workers
NextBatch ==
    \/ BatchCall
    \/ BatchLoop
    \/ BatchCallback
    \/ BatchCheck
    \/ CancelBatch
    \/ Spawn(1)
    \/ ReturnConcurrent(1)
    \/ \E w \in WorkerIds : WorkerStep(w)

\* --------------------------------------------------------------- SSEParser

\* Text is a sequence of tokens: " " is white space, "\n" a line end, ":" a
\* colon, and any other token a word with no white space and no colon in it.
\* A line of the input is kept without its line end, which TrimSpace removes.

IsSpace(c) == c \in {" ", "\n"}

\* strings.TrimSpace
RECURSIVE TrimLeft(_)
TrimLeft(s) == IF s # <<>> /\ IsSpace(Head(s)) THEN TrimLeft(Tail(s)) ELSE s
RECURSIVE TrimRight(_)
TrimRight(s) ==
    IF s # <<>> /\ IsSpace(s[Len(s)]) THEN TrimRight(SubSeq(s, 1, Len(s) - 1))
                                      ELSE s
TrimSpace(s) == TrimRight(TrimLeft(s))

\* strings.HasPrefix
HasPrefix(s, prefix) ==
    Len(s) >= Len(prefix) /\ SubSeq(s, 1, Len(prefix)) = prefix

\* strings.Index(s, c): the offset of the first c in s, from 0, or -1
Index(s, c) ==
    IF \E i \in 1..Len(s) : s[i] = c
      THEN (CHOOSE i \in 1..Len(s) :
                s[i] = c /\ \A j \in 1..(i - 1) : s[j] # c) - 1
      ELSE -1

\* SSEEvent, and the zero value ParseNext starts from
SSEEvent(ev, data, id) == [Event |-> ev, Data |-> data, ID |-> id]
ZeroEvent == SSEEvent(<<>>, <<>>, <<>>)

\* the errors of the parser: none, io.EOF, ErrStreamClosed, and the error
\* that wraps any other error of ReadString
ErrNil == "nil"
EOF == "EOF"
ErrStreamClosed == "stream is closed"
ErrReadingStream == "error reading stream"

\* what ParseNext returns; the event is nil unless err is nil
ParseResult(ev, err) == [event |-> ev, err |-> err]

\* NewSSEParser: nothing read, not closed, no call made
NewSSEParser ==
    /\ pos = 0
    /\ avail = 0
    /\ closed = FALSE
    /\ ppc = "idle"
    /\ event = ZeroEvent
    /\ dataBuffer = <<>>
    /\ pOutcome = ParseResult(ZeroEvent, ErrNil)
    /\ nParse = 0
    /\ values = <<>>
    /\ parseLog = <<>>

\* p.reader.ReadString('\n'): the next complete line, or, when no line end is
\* left, the rest of the input together with io.EOF
ReadString ==
    IF pos < Len(lines) THEN [line |-> lines[pos + 1], err |-> ErrNil]
                        ELSE [line |-> tail, err |-> EOF]

\* bufio.Reader: ReadString reads from the body only when its buffer holds
\* no complete line
MustFill == pos >= avail

\* ReadString returns a line or io.EOF: from the buffer, or after a Read of
\* the body, which waits for something to arrive or for the end of the body,
\* fails once the context of the request is done, and otherwise takes all
\* that has arrived into the buffer
BufioRead ==
    /\ MustFill => (~reqCtxDone /\ (arrived > avail \/ arrived = Len(lines)))
    /\ avail' = IF MustFill THEN arrived ELSE avail
    /\ UNCHANGED <<arrived, reqCtxDone>>

\* line = strings.TrimSpace(line)
Line == TrimSpace(ReadString.line)

\* ParseNext returns: how tells the return taken (at a blank line, at the end
\* of the input, or on entry because the parser is closed)
ParseReturn(ev, err, how) ==
    /\ pOutcome' = ParseResult(ev, err)
    /\ parseLog' = Append(parseLog, [event |-> ev, err |-> err, how |-> how,
                                     values |-> values])
    /\ ppc' = "returned"

\* ParseNext is entered: a closed parser returns ErrStreamClosed, an open one
\* starts its loop with an empty event and an empty dataBuffer
ParseNextCall ==
    /\ ppc \in {"idle", "returned"}
    /\ nParse' = nParse + 1
    /\ IF closed
         THEN /\ ParseReturn(ZeroEvent, ErrStreamClosed, "closed")
              /\ UNCHANGED <<event, dataBuffer, values>>
         ELSE /\ event' = ZeroEvent
              /\ dataBuffer' = <<>>
              /\ values' = <<>>
              /\ ppc' = "loop"
              /\ UNCHANGED <<pOutcome, parseLog>>
    /\ UNCHANGED <<lines, tail, pos, closed, arrived, avail, reqCtxDone>>

\* ReadString returns io.EOF: the parser is closed; what was accumulated is
\* returned as the last event, or io.EOF if there is nothing
ReadEOF ==
    /\ ppc = "loop"
    /\ ReadString.err = EOF
    /\ closed' = TRUE
    /\ IF dataBuffer # <<>>
         THEN ParseReturn([event EXCEPT !.Data = dataBuffer], ErrNil, "eof")
         ELSE ParseReturn(ZeroEvent, EOF, "eof")
    /\ BufioRead
    /\ UNCHANGED <<lines, tail, pos, event, dataBuffer, nParse, values>>
    /\ UNCHANGED readerVars
    /\ UNCHANGED nonStreamVars

\* ReadString returns an error other than io.EOF: ParseNext returns it
\* wrapped, and drops what it had accumulated
ReadStreamError ==
    /\ ppc = "loop"
    /\ MustFill
    /\ reqCtxDone
    /\ ParseReturn(ZeroEvent, ErrReadingStream, "error")
    /\ UNCHANGED <<lines, tail, pos, closed, event, dataBuffer, nParse, values,
                   arrived, avail, reqCtxDone>>
    /\ UNCHANGED readerVars
    /\ UNCHANGED nonStreamVars

\* if line == "" && dataBuffer.Len() > 0
EndsEventNoColon(line, buf) == Index(line, ":") = -1 /\ buf # <<>>
EndsEvent(line, buf) == line = <<>> /\ buf # <<>>

\* an empty line ends the event when data was accumulated
EndEvent ==
    /\ ppc = "loop"
    /\ ReadString.err = ErrNil
    /\ EndsEvent(Line, dataBuffer)
    /\ pos' = pos + 1
    /\ ParseReturn([event EXCEPT !.Data = dataBuffer], ErrNil, "blank")
    /\ BufioRead
    /\ UNCHANGED <<lines, tail, closed, event, dataBuffer, nParse, values>>
    /\ UNCHANGED readerVars
    /\ UNCHANGED nonStreamVars

\* if line == "" || strings.HasPrefix(line, ":") { continue }, and
\* if colonIndex == -1 { continue }
Skipped(line) ==
    line = <<>> \/ HasPrefix(line, <<":">>) \/ Index(line, ":") = -1

\* an empty line with nothing accumulated, a comment or a line without a
\* colon: the loop goes on to the next line
SkipLine ==
    /\ ppc = "loop"
    /\ ReadString.err = ErrNil
    /\ ~EndsEvent(Line, dataBuffer)
    /\ Skipped(Line)
    /\ pos' = pos + 1
    /\ BufioRead
    /\ UNCHANGED <<lines, tail, closed, ppc, event, dataBuffer, pOutcome,
                   nParse, values, parseLog>>
    /\ UNCHANGED readerVars
    /\ UNCHANGED nonStreamVars

\* field := line[:colonIndex]; value := strings.TrimSpace(line[colonIndex+1:])
Field(line) == SubSeq(line, 1, Index(line, ":"))
Value(line) == TrimSpace(SubSeq(line, Index(line, ":") + 2, Len(line)))

\* case "data": a newline is written first if the buffer is not empty
WriteDataNoSeparator(buf, value) == buf \o value
WriteData(buf, value) ==
    IF buf # <<>> THEN buf \o <<"\n">> \o value ELSE value

\* a field line: event and id are stored, data is added to the buffer, retry
\* and every other field is ignored
ParseField ==
    /\ ppc = "loop"
    /\ ReadString.err = ErrNil
    /\ ~EndsEvent(Line, dataBuffer)
    /\ ~Skipped(Line)
    /\ pos' = pos + 1
    /\ LET field == Field(Line)
           value == Value(Line)
       IN  /\ event' = IF field = <<"event">> THEN [event EXCEPT !.Event = value]
                       ELSE IF field = <<"id">> THEN [event EXCEPT !.ID = value]
                       ELSE event
           /\ dataBuffer' = IF field = <<"data">> THEN WriteData(dataBuffer, value)
                                                  ELSE dataBuffer
           /\ values' = IF field = <<"data">> THEN Append(values, value)
                                              ELSE values
    /\ BufioRead
    /\ UNCHANGED <<lines, tail, closed, ppc, pOutcome, nParse, parseLog>>
    /\ UNCHANGED readerVars
    /\ UNCHANGED nonStreamVars

\* a caller of the parser calls ParseNext
ParserCall ==
    /\ nParse < MaxParseCalls
    /\ ParseNextCall
    /\ UNCHANGED readerVars
    /\ UNCHANGED nonStreamVars

\* one iteration of the loop of ParseNext
ParseStep == ReadEOF \/ EndEvent \/ SkipLine \/ ParseField

NextParser == ParserCall \/ ParseStep

\* ---------------------------------------------------------- stream readers

\* models.ChoiceError, and the nil pointer
ChoiceError(code, message) == [present |-> TRUE, Code |-> code, Message |-> message]
NoError == [present |-> FALSE, Code |-> 0, Message |-> ""]

\* the JSON texts of the model: each of these words is the text of one JSON
\* object, with the id, the top-level error and the error of its choice
JsonObject(id, err, choiceErr) ==
    [id |-> id, error |-> err, choiceError |-> choiceErr]
JsonTexts == {"j1", "j2", "jTop", "jChoice", "jBoth"}
Json(text) ==
    CASE text = "j1" -> JsonObject(1, NoError, NoError)
      [] text = "j2" -> JsonObject(2, NoError, NoError)
      [] text = "jTop" -> JsonObject(0, ChoiceError(500, "internal"), NoError)
      [] text = "jChoice" -> JsonObject(3, NoError, ChoiceError(403, "filtered"))
      [] text = "jBoth" -> JsonObject(4, ChoiceError(502, "provider"),
                                         ChoiceError(502, "provider"))

\* json.Unmarshal succeeds on one JSON value with white space around it
ValidJson(data) ==
    Len(TrimSpace(data)) = 1 /\ TrimSpace(data)[1] \in JsonTexts
Unmarshal(data) == Json(TrimSpace(data)[1])

\* a decoded response chunk (ChatCompletionResponse, CompletionResponse): the
\* top-level error of the JSON text is no field of it; nil is the nil pointer
Chunk(id, choiceErr) == [nil |-> FALSE, id |-> id, choiceError |-> choiceErr]
NoChunk == [nil |-> TRUE, id |-> 0, choiceError |-> NoError]

\* the errors Read returns: the parser's error, or a formatted one
ReadError(what, code, message) ==
    [kind |-> what, Code |-> code, Message |-> message]
ParserError(err) == ReadError(err, 0, "")
RemoteError(e) == ReadError("openrouter error", e.Code, e.Message)
DecodeError == ReadError("failed to parse response", 0, "")

\* NewChatCompletionStreamReader / NewCompletionStreamReader
NewStreamReader ==
    /\ NewSSEParser
    /\ rdpc = "idle"
    /\ nReads = 0
    /\ skipped = 0
    /\ readLog = <<>>
    /\ rdAfterCancel = FALSE

\* the events the parser has returned so far
EventsParsed == Cardinality({k \in 1..Len(parseLog) : parseLog[k].err = ErrNil})

\* Read returns; the history keeps what the parser returned last (its error,
\* the data of its event), the events skipped, and how many events the
\* parser had returned by then
ReadReturn(chunk, err) ==
    /\ readLog' = Append(readLog, [chunk |-> chunk, err |-> err,
                                   perr |-> pOutcome.err,
                                   data |-> pOutcome.event.Data,
                                   skipped |-> skipped,
                                   upto |-> EventsParsed,
                                   afterCancel |-> rdAfterCancel])
    /\ rdpc' = "idle"

\* Read is called: event, err := r.parser.ParseNext()
ReadCall ==
    /\ rdpc = "idle"
    /\ nReads < MaxReads
    /\ ParseNextCall
    /\ rdpc' = "parse"
    /\ nReads' = nReads + 1
    /\ skipped' = 0
    /\ rdAfterCancel' = reqCtxDone
    /\ UNCHANGED <<readerKind, payloads, readLog>>
    /\ UNCHANGED nonStreamVars

\* ParseNext has returned to Read
Parsed == rdpc = "parse" /\ ppc = "returned"

\* if err != nil { return nil, err }
ReadFail ==
    /\ Parsed
    /\ pOutcome.err # ErrNil
    /\ ReadReturn(NoChunk, ParserError(pOutcome.err))
    /\ UNCHANGED <<readerKind, payloads, nReads, skipped, rdAfterCancel>>
    /\ UNCHANGED parserVars
    /\ UNCHANGED nonStreamVars

\* strings.HasPrefix(event.Data, ": ")
IsKeepAliveNever(data) == FALSE
IsKeepAlive(data) == HasPrefix(data, <<":", " ">>)

\* return r.Read(): the recursive call starts with ParseNext again
ReadSkip ==
    /\ Parsed
    /\ pOutcome.err = ErrNil
    /\ IsKeepAlive(pOutcome.event.Data)
    /\ ParseNextCall
    /\ skipped' = skipped + 1
    /\ UNCHANGED <<readerKind, payloads, rdpc, nReads, readLog, rdAfterCancel>>
    /\ UNCHANGED nonStreamVars

\* event.Data == "[DONE]"
IsDoneNever(data) == FALSE
IsDone(data) == data = <<"[DONE]">>

\* return nil, io.EOF
ReadDone ==
    /\ Parsed
    /\ pOutcome.err = ErrNil
    /\ ~IsKeepAlive(pOutcome.event.Data)
    /\ IsDone(pOutcome.event.Data)
    /\ ReadReturn(NoChunk, ParserError(EOF))
    /\ UNCHANGED <<readerKind, payloads, nReads, skipped, rdAfterCancel>>
    /\ UNCHANGED parserVars
    /\ UNCHANGED nonStreamVars

\* json.Unmarshal([]byte(event.Data), &errorCheck) gives no error and
\* errorCheck.Error != nil
HasTopLevelErrorNever(data) == FALSE
HasTopLevelError(data) == ValidJson(data) /\ Unmarshal(data).error.present

\* ChatCompletionStreamReader.Read only: a top-level error object is returned
\* as "openrouter error <code>: <message>"
ReadTopError ==
    /\ Parsed
    /\ pOutcome.err = ErrNil
    /\ ~IsKeepAlive(pOutcome.event.Data)
    /\ ~IsDone(pOutcome.event.Data)
    /\ readerKind = "chat"
    /\ HasTopLevelError(pOutcome.event.Data)
    /\ ReadReturn(NoChunk, RemoteError(Unmarshal(pOutcome.event.Data).error))
    /\ UNCHANGED <<readerKind, payloads, nReads, skipped, rdAfterCancel>>
    /\ UNCHANGED parserVars
    /\ UNCHANGED nonStreamVars

\* json.Unmarshal([]byte(event.Data), &response) returns an error
DecodeFailsNever(data) == FALSE
DecodeFails(data) == ~ValidJson(data)

\* the response json.Unmarshal fills in: the choices keep their error
DecodeChunkDropsError(data) ==
    IF ValidJson(data) THEN Chunk(Unmarshal(data).id, NoError)
                       ELSE Chunk(0, NoError)
DecodeChunk(data) ==
    IF ValidJson(data)
      THEN Chunk(Unmarshal(data).id, Unmarshal(data).choiceError)
      ELSE Chunk(0, NoError)

\* the payload is decoded: "failed to parse response", or the chunk
ReadDecode ==
    /\ Parsed
    /\ pOutcome.err = ErrNil
    /\ ~IsKeepAlive(pOutcome.event.Data)
    /\ ~IsDone(pOutcome.event.Data)
    /\ ~(readerKind = "chat" /\ HasTopLevelError(pOutcome.event.Data))
    /\ IF DecodeFails(pOutcome.event.Data)
         THEN ReadReturn(NoChunk, DecodeError)
         ELSE ReadReturn(DecodeChunk(pOutcome.event.Data), ParserError(ErrNil))
    /\ UNCHANGED <<readerKind, payloads, nReads, skipped, rdAfterCancel>>
    /\ UNCHANGED parserVars
    /\ UNCHANGED nonStreamVars

NextReader ==
    \/ ReadCall
    \/ ParseStep
    \/ ReadFail
    \/ ReadSkip
    \/ ReadDone
    \/ ReadTopError
    \/ ReadDecode

\* what the server sends arrives at the body, one or more lines at a time;
\* the last line ends the body
Arrive ==
    /\ ~reqCtxDone
    /\ arrived < Len(lines)
    /\ arrived' \in (arrived + 1)..Len(lines)
    /\ UNCHANGED <<lines, tail, pos, closed, ppc, event, dataBuffer, pOutcome,
                   nParse, values, parseLog, avail, reqCtxDone>>
    /\ UNCHANGED readerVars
    /\ UNCHANGED nonStreamVars

\* the caller cancels the context it gave to CreateChatCompletionStream
CancelRequest ==
    /\ ~reqCtxDone
    /\ reqCtxDone' = TRUE
    /\ UNCHANGED <<lines, tail, pos, closed, ppc, event, dataBuffer, pOutcome,
                   nParse, values, parseLog, arrived, avail>>
    /\ UNCHANGED readerVars
    /\ UNCHANGED nonStreamVars

NextClientStream == NextReader \/ ReadStreamError \/ Arrive \/ CancelRequest

\* ------------------------------------------------------- CancellableReader

\* the goroutines that call Close: the one inside Read, and another one
CloseCallers == {"reader", "other"}

\* NewCancellableReader: open, the context not done, no call in progress
NewCancellableReader ==
    /\ crClosed = FALSE
    /\ crCtx = FALSE
    /\ mu = "none"
    /\ uCloses = 0
    /\ crpc = "idle"
    /\ nCrReads = 0
    /\ crWoken = "none"
    /\ crHow = "none"
    /\ crRet = "none"
    /\ bg = "none"
    /\ bgRet = "none"
    /\ cpc = [p \in CloseCallers |-> "idle"]
    /\ opc = "idle"
    /\ nOps = 0
    /\ closeLog = <<>>
    /\ lateWrite = FALSE

\* an event a blocked select waits for has happened: the first one wakes it
Wake(ev) ==
    crWoken' = IF crpc = "blocked" /\ crWoken = "none" THEN ev ELSE crWoken

\* Read is called: select { case <-r.ctx.Done(): return 0, r.ctx.Err();
\* default: }
CrReadCall ==
    /\ crpc = "idle"
    /\ nCrReads < MaxCancelReads
    /\ nCrReads' = nCrReads + 1
    /\ crHow' = "none"
    /\ IF crCtx THEN /\ crRet' = "ctx"
                     /\ UNCHANGED crpc
                ELSE /\ crRet' = "none"
                     /\ crpc' = "spawn"
    /\ UNCHANGED <<crClosed, crCtx, mu, uCloses, crWoken, bg, bgRet, cpc, opc,
                   nOps>>
    /\ UNCHANGED <<closeLog, lateWrite>>
    /\ UNCHANGED nonCancelVars

\* done := make(chan struct{}); go func() { readN, readErr = r.reader.Read(p);
\* close(done) }()
CrSpawn ==
    /\ crpc = "spawn"
    /\ bg' = "running"
    /\ bgRet' = "none"
    /\ crpc' = "select"
    /\ UNCHANGED <<crClosed, crCtx, mu, uCloses, nCrReads, crWoken, crHow,
                   crRet, cpc, opc, nOps>>
    /\ UNCHANGED <<closeLog, lateWrite>>
    /\ UNCHANGED nonCancelVars

\* the background goroutine: r.reader.Read(p) returns bytes, which it has
\* written into the buffer p of the caller, or an error (an error, or what
\* was read before, once the stream is closed); close(done).  Nothing stops
\* the goroutine when the Read call that started it has returned.
UnderlyingReadReturns ==
    /\ bg = "running"
    /\ bg' = "finished"
    /\ bgRet' \in {"data", "err"}
    /\ lateWrite' = (lateWrite \/ (crpc = "idle" /\ bgRet' = "data"))
    /\ Wake("done")
    /\ UNCHANGED <<crClosed, crCtx, mu, uCloses, crpc, nCrReads, crHow, crRet,
                   cpc, opc, nOps, closeLog>>
    /\ UNCHANGED nonCancelVars

\* where Read goes from case <-r.ctx.Done(): to r.Close()
AfterCtxCaseReturns == "retctx"
AfterCtxCase == "close"

\* Read takes the case c of its select
TakeCase(c) ==
    /\ crHow' = c
    /\ IF c = "ctx"
         THEN /\ crpc' = AfterCtxCase
              /\ cpc' = [cpc EXCEPT !["reader"] =
                            IF AfterCtxCase = "close" THEN "lock" ELSE @]
              /\ UNCHANGED <<crRet, bg>>
         ELSE /\ crpc' = "idle"
              /\ crRet' = bgRet
              /\ bg' = "none"
              /\ UNCHANGED cpc

\* select { case <-r.ctx.Done(): ...; case <-done: ... }: a case that is
\* ready is taken, any of them if both are; if none is, Read blocks
CrSelect ==
    /\ crpc = "select"
    /\ \/ /\ crCtx
          /\ TakeCase("ctx")
          /\ UNCHANGED crWoken
       \/ /\ bg = "finished"
          /\ TakeCase("done")
          /\ UNCHANGED crWoken
       \/ /\ ~crCtx /\ bg # "finished"
          /\ crpc' = "blocked"
          /\ crWoken' = "none"
          /\ UNCHANGED <<crHow, crRet, bg, cpc>>
    /\ UNCHANGED <<crClosed, crCtx, mu, uCloses, nCrReads, bgRet, opc, nOps>>
    /\ UNCHANGED <<closeLog, lateWrite>>
    /\ UNCHANGED nonCancelVars

\* the blocked select is woken by the event that happened first
CrWake ==
    /\ crpc = "blocked"
    /\ crWoken # "none"
    /\ TakeCase(crWoken)
    /\ crWoken' = "none"
    /\ UNCHANGED <<crClosed, crCtx, mu, uCloses, nCrReads, bgRet, opc, nOps>>
    /\ UNCHANGED <<closeLog, lateWrite>>
    /\ UNCHANGED nonCancelVars

\* if r.closed
AlreadyClosedNever(c) == FALSE
AlreadyClosed(c) == c

\* Close: r.mu.Lock(); if r.closed { return nil }; r.closed = true;
\* r.cancelFunc()
CloseEnter(p) ==
    /\ cpc[p] = "lock"
    /\ mu = "none"
    /\ IF AlreadyClosed(crClosed)
         THEN /\ cpc' = [cpc EXCEPT ![p] = "done"]
              /\ closeLog' = Append(closeLog, [who |-> p, ret |-> "nil"])
              /\ UNCHANGED <<crClosed, crCtx, mu, crWoken>>
         ELSE /\ crClosed' = TRUE
              /\ crCtx' = TRUE
              /\ mu' = p
              /\ cpc' = [cpc EXCEPT ![p] = "closing"]
              /\ IF crCtx THEN UNCHANGED crWoken ELSE Wake("ctx")
              /\ UNCHANGED closeLog
    /\ UNCHANGED <<uCloses, crpc, nCrReads, crHow, crRet, bg, bgRet, opc, nOps,
                   lateWrite>>
    /\ UNCHANGED nonCancelVars

\* Close: return r.reader.Close(), and the deferred r.mu.Unlock()
CloseUnderlying(p) ==
    /\ cpc[p] = "closing"
    /\ uCloses' = uCloses + 1
    /\ mu' = "none"
    /\ cpc' = [cpc EXCEPT ![p] = "done"]
    /\ closeLog' = Append(closeLog, [who |-> p, ret |-> "reader.Close()"])
    /\ UNCHANGED <<crClosed, crCtx, crpc, nCrReads, crWoken, crHow, crRet, bg,
                   bgRet, opc, nOps, lateWrite>>
    /\ UNCHANGED nonCancelVars

\* Read, after r.Close(): return 0, r.ctx.Err()
CrReturnCtx ==
    /\ \/ crpc = "close" /\ cpc["reader"] = "done"
       \/ crpc = "retctx"
    /\ crpc' = "idle"
    /\ crRet' = "ctx"
    /\ cpc' = [cpc EXCEPT !["reader"] = "idle"]
    /\ UNCHANGED <<crClosed, crCtx, mu, uCloses, nCrReads, crWoken, crHow, bg,
                   bgRet, opc, nOps>>
    /\ UNCHANGED <<closeLog, lateWrite>>
    /\ UNCHANGED nonCancelVars

\* the context the reader was made with is cancelled by its owner
CancelParent ==
    /\ ~crCtx
    /\ crCtx' = TRUE
    /\ Wake("ctx")
    /\ UNCHANGED <<crClosed, mu, uCloses, crpc, nCrReads, crHow, crRet, bg,
                   bgRet, cpc, opc, nOps>>
    /\ UNCHANGED <<closeLog, lateWrite>>
    /\ UNCHANGED nonCancelVars

\* another goroutine calls Close
OtherClose ==
    /\ opc = "idle"
    /\ nOps < MaxCloseCalls
    /\ opc' = "close"
    /\ cpc' = [cpc EXCEPT !["other"] = "lock"]
    /\ nOps' = nOps + 1
    /\ UNCHANGED <<crClosed, crCtx, mu, uCloses, crpc, nCrReads, crWoken,
                   crHow, crRet, bg, bgRet>>
    /\ UNCHANGED <<closeLog, lateWrite>>
    /\ UNCHANGED nonCancelVars

\* another goroutine calls Cancel: r.cancelFunc(), then r.Close()
OtherCancel ==
    /\ opc = "idle"
    /\ nOps < MaxCloseCalls
    /\ opc' = "close"
    /\ crCtx' = TRUE
    /\ IF crCtx THEN UNCHANGED crWoken ELSE Wake("ctx")
    /\ cpc' = [cpc EXCEPT !["other"] = "lock"]
    /\ nOps' = nOps + 1
    /\ UNCHANGED <<crClosed, mu, uCloses, crpc, nCrReads, crHow, crRet, bg,
                   bgRet>>
    /\ UNCHANGED <<closeLog, lateWrite>>
    /\ UNCHANGED nonCancelVars

\* the Close or Cancel call of the other goroutine returns
OtherReturn ==
    /\ opc = "close"
    /\ cpc["other"] = "done"
    /\ opc' = "idle"
    /\ cpc' = [cpc EXCEPT !["other"] = "idle"]
    /\ UNCHANGED <<crClosed, crCtx, mu, uCloses, crpc, nCrReads, crWoken,
                   crHow, crRet, bg, bgRet, nOps>>
    /\ UNCHANGED <<closeLog, lateWrite>>
    /\ UNCHANGED nonCancelVars

NextCancel ==
    \/ CrReadCall
    \/ CrSpawn
    \/ UnderlyingReadReturns
    \/ CrSelect
    \/ CrWake
    \/ \E p \in CloseCallers : CloseEnter(p) \/ CloseUnderlying(p)
    \/ CrReturnCtx
    \/ CancelParent
    \/ OtherClose
    \/ OtherCancel
    \/ OtherReturn

\* the goroutine in Read and every goroutine in Close go on when they can;
\* nothing obliges the underlying read to return
FairCancel ==
    /\ WF_vars(CrSelect)
    /\ WF_vars(CrWake)
    /\ WF_vars(CrReturnCtx)
    /\ \A p \in CloseCallers :
          WF_vars(CloseEnter(p)) /\ WF_vars(CloseUnderlying(p))

\* -------------------------------------------------------- specifications

\* a breaker nobody calls, for the specifications of the other components
BreakerUnused ==
    /\ NewCircuitBreaker(1, 1)
    /\ callers = {}
    /\ BreakerIdle

\* a retry client nobody calls
RetryUnused ==
    NewRetryClient([MaxRetries |-> 0, InitialDelay |-> 1, MaxDelay |-> 0,
                    BackoffFactor |-> 2, JitterFactor |-> 0,
                    RetryableErrors |-> {}])

\* a concurrent client nobody calls
DispatchUnused ==
    /\ NewConcurrentClient(1)
    /\ plan = [d \in Dispatches |-> [kind |-> "none", requests |-> <<>>]]

\* a batch processor nobody calls
BatchUnused ==
    /\ bRequests = <<>>
    /\ NewBatchProcessor(1)

\* a parser and a stream reader nobody calls
StreamUnused ==
    /\ lines = <<>>
    /\ tail = <<>>
    /\ arrived = 0
    /\ reqCtxDone = FALSE
    /\ readerKind = "chat"
    /\ payloads = <<>>
    /\ NewStreamReader

\* a CancellableReader nobody uses
CancelUnused == NewCancellableReader

\* one goroutine uses the breaker: calls follow one another
InitBreaker ==
    /\ \E T \in 1..MaxThreshold, rt \in 1..MaxTimeout : NewCircuitBreaker(T, rt)
    /\ callers = {1}
    /\ BreakerIdle
    /\ RetryUnused
    /\ DispatchUnused
    /\ BatchUnused
    /\ StreamUnused
    /\ CancelUnused

SpecBreaker == InitBreaker /\ [][NextBreaker]_vars

\* every goroutine of Procs uses the same breaker at once
InitBreakerConc ==
    /\ \E T \in 1..MaxThreshold, rt \in 1..MaxTimeout : NewCircuitBreaker(T, rt)
    /\ callers = Procs
    /\ BreakerIdle
    /\ RetryUnused
    /\ DispatchUnused
    /\ BatchUnused
    /\ StreamUnused
    /\ CancelUnused

SpecBreakerConc == InitBreakerConc /\ [][NextBreaker]_vars

\* one call of RetryClient.CreateChatCompletion under any configuration, the
\* caller's context cancelled at any moment or never
InitRetry ==
    /\ \E c \in RetryConfigs : NewRetryClient(c)
    /\ BreakerUnused
    /\ DispatchUnused
    /\ BatchUnused
    /\ StreamUnused
    /\ CancelUnused

SpecRetry == InitRetry /\ [][NextRetry]_vars

\* the requests of a dispatch call: request i of call d is named 10 * d + i
RequestList(d, n) == [i \in 1..n |-> 10 * d + i]

\* a client with any maxConcurrency, on which two calls are made that may
\* overlap: a single-shot or a streaming dispatch, and a single-shot dispatch;
\* the context of each may be cancelled at any moment
InitDispatch ==
    /\ \E m \in 1..MaxConcurrency : NewConcurrentClient(m)
    /\ \E k \in {"single", "stream"}, n1 \in 0..MaxRequests,
          n2 \in 0..(IF MaxOverlap < MaxRequests THEN MaxOverlap ELSE MaxRequests) :
          plan = [d \in Dispatches |->
                    IF d = 1 THEN [kind |-> k, requests |-> RequestList(1, n1)]
                             ELSE [kind |-> "single", requests |-> RequestList(2, n2)]]
    /\ BatchUnused
    /\ BreakerUnused
    /\ RetryUnused
    /\ StreamUnused
    /\ CancelUnused

SpecDispatch == InitDispatch /\ [][NextDispatch]_vars

\* one streaming dispatch of any number of requests on a client with any
\* maxConcurrency, under the fairness of FairStream
InitStream ==
    /\ \E m \in 1..MaxConcurrency : NewConcurrentClient(m)
    /\ \E n \in 0..MaxRequests :
          plan = [d \in Dispatches |->
                    IF d = 1 THEN [kind |-> "stream", requests |-> RequestList(1, n)]
                             ELSE [kind |-> "none", requests |-> <<>>]]
    /\ BatchUnused
    /\ BreakerUnused
    /\ RetryUnused
    /\ StreamUnused
    /\ CancelUnused

SpecStreamFair == InitStream /\ [][NextStream]_vars /\ FairStream

\* the same dispatch with a consumer that may stop receiving
SpecStreamStalled == InitStream /\ [][NextStream]_vars /\ FairStreamWorkers

\* ProcessBatch is called once on any request list, with any batch size, on a
\* client with any maxConcurrency; the context may be cancelled at any moment
InitBatch ==
    /\ \E m \in 1..MaxConcurrency : NewConcurrentClient(m)
    /\ plan = [d \in Dispatches |-> [kind |-> "none", requests |-> <<>>]]
    /\ \E n \in 0..MaxBatchRequests : bRequests = RequestList(1, n)
    /\ \E size \in 1..MaxRequests : NewBatchProcessor(size)
    /\ BreakerUnused
    /\ RetryUnused
    /\ StreamUnused
    /\ CancelUnused

SpecBatch == InitBatch /\ [][NextBatch]_vars

\* the lines a parser is given on its own
SampleLines ==
    { <<>>,
      <<" ">>,
      <<":", " ", "c">>,
      <<"x">>,
      <<"data", ":", " ", "a">>,
      <<" ", "data", ":", "b", " ">>,
      <<"data", ":">>,
      <<"event", ":", " ", "m">>,
      <<"retry", ":", " ", "r">> }

\* the text an input may end with after its last line end
SampleTails == { <<>>, <<"data", ":", " ", "t">> }

\* every sequence of at most n elements of S
SeqUpTo(S, n) == UNION {[1..k -> S] : k \in 0..n}

\* ParseNext is called again and again on a parser over any input
InitParser ==
    /\ lines \in SeqUpTo(SampleLines, MaxLines)
    /\ tail \in SampleTails
    /\ arrived = Len(lines)
    /\ reqCtxDone = FALSE
    /\ readerKind = "chat"
    /\ payloads = <<>>
    /\ NewStreamReader
    /\ BreakerUnused
    /\ RetryUnused
    /\ DispatchUnused
    /\ BatchUnused
    /\ CancelUnused

SpecParser == InitParser /\ [][NextParser]_vars

\* the data of the events a stream reader is given: chunks, the [DONE]
\* mark, a keep-alive, text that is no JSON, error objects
Payloads ==
    { <<"j1">>, <<"j2">>, <<"[DONE]">>, <<":", " ", "k">>, <<"x">>,
      <<"jTop">>, <<"jChoice">>, <<"jBoth">> }

\* the lines of a stream of events: a data line and an empty line for each
RECURSIVE FrameLines(_)
FrameLines(ps) ==
    IF ps = <<>> THEN <<>>
    ELSE <<<<"data", ":", " ">> \o Head(ps), <<>>>> \o FrameLines(Tail(ps))

\* Read is called again and again on either reader, over a stream that starts
\* with a comment line and goes on with any events
InitReader ==
    /\ readerKind \in {"chat", "completion"}
    /\ payloads \in SeqUpTo(Payloads, MaxEvents)
    /\ lines = <<<<":", " ", "c">>>> \o FrameLines(payloads)
    /\ tail = <<>>
    /\ arrived = Len(lines)
    /\ reqCtxDone = FALSE
    /\ NewStreamReader
    /\ BreakerUnused
    /\ RetryUnused
    /\ DispatchUnused
    /\ BatchUnused
    /\ CancelUnused

SpecReader == InitReader /\ [][NextReader]_vars

\* Client.CreateChatCompletionStream: Read is called again and again on a
\* chat reader over the body of the response, whose events arrive from the
\* server one or several at a time, while the caller may cancel the context
\* the request was made with
InitClientStream ==
    /\ readerKind = "chat"
    /\ payloads \in SeqUpTo(Payloads, MaxEvents)
    /\ lines = <<<<":", " ", "c">>>> \o FrameLines(payloads)
    /\ tail = <<>>
    /\ arrived = 0
    /\ reqCtxDone = FALSE
    /\ NewStreamReader
    /\ BreakerUnused
    /\ RetryUnused
    /\ DispatchUnused
    /\ BatchUnused
    /\ CancelUnused

SpecClientStream == InitClientStream /\ [][NextClientStream]_vars

\* Read is called on a CancellableReader while the owner of the context may
\* cancel it and another goroutine may call Close and Cancel
InitCancel ==
    /\ NewCancellableReader
    /\ BreakerUnused
    /\ RetryUnused
    /\ DispatchUnused
    /\ BatchUnused
    /\ StreamUnused

SpecCancelFair == InitCancel /\ [][NextCancel]_vars /\ FairCancel

\* ------------------------------------------- claims on the circuit breaker

AllIdle == \A p \in Procs : pc[p] = "idle"

\* C1: a call that finds the breaker Open less than resetTimeout after
\* lastFailure returns "circuit breaker is open" and never invokes the
\* wrapped operation.
C1_OpenRejectsBeforeTimeout ==
    \A p \in Procs :
        (stRead[p] = CircuitOpen /\ elapsedRead[p] >= 0
                                 /\ elapsedRead[p] < resetTimeout)
            => (res[p] = "rejected" /\ opCalls[p] = 0 /\ pc[p] = "idle")

\* the spec's example: threshold 2, two failures, the third call is rejected
C1_Witness ==
    /\ failureThreshold = 2 /\ nFail = 2 /\ nCalls = 3
    /\ stRead[1] = CircuitOpen /\ elapsedRead[1] >= 0
    /\ elapsedRead[1] < resetTimeout
    /\ res[1] = "rejected" /\ opCalls[1] = 0

\* C2: between calls of one goroutine, the breaker has left Closed exactly
\* when failureThreshold operations failed since the last success (it is Open
\* at the moment the count reaches the threshold); while Closed, failures is
\* that count, and a successful call leaves failures at 0.
C2_OpensAtThreshold ==
    pc[1] = "idle" =>
        /\ streak < failureThreshold => (state = CircuitClosed /\ failures = streak)
        /\ streak = failureThreshold => state = CircuitOpen
        /\ state = CircuitClosed => streak < failureThreshold
        /\ res[1] = "ok" => (failures = 0 /\ streak = 0)

\* a failure, a success, then failureThreshold failures in a row open it
C2_Witness ==
    /\ pc[1] = "idle" /\ failureThreshold = 2
    /\ nSucc = 1 /\ nFail = 3 /\ streak = 2
    /\ state = CircuitOpen /\ failures = 2

\* C3 as stated: a call that finds the breaker Open when now - lastFailure
\* >= resetTimeout (equality included) is let through as the probe.
C3_ProbeAtTimeout ==
    (stRead[1] = CircuitOpen /\ elapsedRead[1] >= resetTimeout) =>
        /\ res[1] # "rejected"
        /\ pc[1] = "checkReset" => state = CircuitHalfOpen
        /\ pc[1] = "request" =>
               (state = CircuitHalfOpen /\ failures = 0 /\ opCalls[1] = 0)
        /\ pc[1] \notin {"checkReset", "request"} => opCalls[1] = 1
        /\ (pc[1] = "idle" /\ ~opErr[1]) =>
               (res[1] = "ok" /\ state = CircuitClosed /\ failures = 0)

\* C3 amended: a call that finds the breaker Open when now - lastFailure >
\* resetTimeout moves it to HalfOpen, resets failures to 0 and invokes the
\* operation; if the operation succeeds the breaker is Closed with failures 0
\* when the call returns.
C3_ProbeAfterTimeout ==
    (stRead[1] = CircuitOpen /\ elapsedRead[1] > resetTimeout) =>
        /\ res[1] # "rejected"
        /\ pc[1] = "checkReset" => state = CircuitHalfOpen
        /\ pc[1] = "request" =>
               (state = CircuitHalfOpen /\ failures = 0 /\ opCalls[1] = 0)
        /\ pc[1] \notin {"checkReset", "request"} => opCalls[1] = 1
        /\ (pc[1] = "idle" /\ ~opErr[1]) =>
               (res[1] = "ok" /\ state = CircuitClosed /\ failures = 0)

C3_Witness ==
    /\ stRead[1] = CircuitOpen /\ elapsedRead[1] > resetTimeout
    /\ pc[1] = "idle" /\ res[1] = "ok" /\ opCalls[1] = 1
    /\ state = CircuitClosed /\ failures = 0

\* C4: a call whose operation ran while the breaker was HalfOpen and failed
\* leaves the breaker Open.
C4_HalfOpenFailureOpens ==
    (/\ pc[1] = "idle" /\ res[1] = "fail"
     /\ stRead[1] \in {CircuitOpen, CircuitHalfOpen})
        => state = CircuitOpen

\* C5: when every call made so far found the breaker Closed, invoked the
\* operation and failed, and all of them have returned, failures is the
\* number of those calls and the breaker is Open if that number reached
\* failureThreshold.
C5_NoLostUpdate ==
    (AllIdle /\ nSucc = 0 /\ nRej = 0 /\ nProbe = 0 /\ nFail = nCalls) =>
        /\ failures = nFail
        /\ nFail >= failureThreshold => state = CircuitOpen

\* C33: the steps of a call that ends rejected (it enters, reads cb.state,
\* compares the elapsed time and returns "circuit breaker is open") leave
\* state, failures and lastFailure as they were.
C33_RejectionChangesNothing ==
    [][(/\ pc[1] \in {"idle", "checkState", "checkOpen"}
        /\ pc'[1] \in {"checkState", "checkOpen", "idle"}
        /\ pc'[1] # pc[1])
           => UNCHANGED <<state, failures, lastFailure>>]_vars

\* two calls in a row were rejected, later than the failure that opened the
\* breaker, and the breaker is as that failure left it
C33_Witness ==
    /\ pc[1] = "idle" /\ res[1] = "rejected"
    /\ nRej = 2 /\ nFail = failureThreshold /\ nSucc = 0
    /\ state = CircuitOpen /\ failures = failureThreshold
    /\ lastFailure < now

\* a call that was let through as the probe and has not returned
ProbeInFlight(q) ==
    stRead[q] = CircuitOpen /\ pc[q] \notin {"idle", "checkState", "checkOpen"}

\* C34: while a probe is in flight, no other goroutine's call invokes the
\* operation.
C34_OneProbeInFlight ==
    [][\A p \in Procs :
          opCalls'[p] > opCalls[p] =>
              ~\E q \in Procs \ {p} : ProbeInFlight(q)]_vars

\* ---------------------------------------------- claims on the retry client

\* an error the configuration asks to retry: a classified API error whose
\* code is in RetryableErrors
Retryable(err) == err.kind = "api" /\ err.code \in RetryableErrors

Last(seq) == seq[Len(seq)]

\* C6: when the call has returned, the context was never cancelled and every
\* request failed with a retryable error, exactly MaxRetries + 1 requests
\* were made and the call returned "max retries exceeded" wrapping the error
\* of the last request.
C6_MaxRetriesExceeded ==
    (/\ rpc = "done" /\ ~ctxDone
     /\ \A i \in 1..Len(outcomes) : Retryable(outcomes[i]))
        => /\ invocations = MaxRetries + 1
           /\ Len(outcomes) = MaxRetries + 1
           /\ result = Returned(FALSE, TRUE, Last(outcomes))

\* MaxRetries = 2: three requests, two different retryable codes, the last
\* one wrapped
C6_Witness ==
    /\ rpc = "done" /\ ~ctxDone /\ MaxRetries = 2 /\ invocations = 3
    /\ Len(outcomes) = 3
    /\ \A i \in 1..3 : Retryable(outcomes[i])
    /\ outcomes[2].code # outcomes[3].code
    /\ result = Returned(FALSE, TRUE, outcomes[3])

\* C7: a successful request is the last one made; when request k + 1
\* succeeds after k retryable failures (k <= MaxRetries), the call has
\* returned the response with a nil error after exactly k + 1 requests.
C7_SuccessAfterRetries ==
    /\ \A i \in 1..(Len(outcomes) - 1) : outcomes[i] # NoErr
    /\ (outcomes # <<>> /\ Last(outcomes) = NoErr) =>
           /\ rpc = "done"
           /\ result = Returned(TRUE, FALSE, NoErr)
           /\ invocations = Len(outcomes)
           /\ Len(outcomes) - 1 <= MaxRetries
           /\ \A i \in 1..(Len(outcomes) - 1) : Retryable(outcomes[i])

\* k = MaxRetries = 2: two retryable failures, then the response
C7_Witness ==
    /\ rpc = "done" /\ MaxRetries = 2 /\ invocations = 3
    /\ Len(outcomes) = 3 /\ outcomes[3] = NoErr
    /\ Retryable(outcomes[1]) /\ Retryable(outcomes[2])
    /\ result.resp /\ result.err = NoErr

\* C8: as soon as a request fails with an error that is no API error, or an
\* API error whose code is not in RetryableErrors, the call has returned that
\* very error, unwrapped; that request was the last one, and no backoff
\* sleep followed it (one sleep before each request but the first).
C8_NonRetryableReturned ==
    (outcomes # <<>> /\ Last(outcomes) # NoErr /\ ~Retryable(Last(outcomes)))
        => /\ rpc = "done"
           /\ result = Returned(FALSE, FALSE, Last(outcomes))
           /\ invocations = Len(outcomes)
           /\ sleeps = Len(outcomes) - 1

\* a retryable failure, then an API error whose code is not to be retried
C8_Witness ==
    /\ rpc = "done" /\ Len(outcomes) = 2 /\ invocations = 2 /\ sleeps = 1
    /\ Retryable(outcomes[1])
    /\ outcomes[2].kind = "api" /\ outcomes[2].code \notin RetryableErrors
    /\ RetryableErrors # {}
    /\ result = Returned(FALSE, FALSE, outcomes[2])

\* C9: once the context was cancelled while the call was blocked in a backoff
\* sleep, the call is woken whatever is left of the delay, makes no further
\* request, and returns ctx.Err().
C9_CancelDuringSleep ==
    cancelInSleep =>
        /\ invocations = invAtCancel
        /\ rpc \in {"sleep", "done"}
        /\ rpc = "sleep" => woken = "ctx"
        /\ rpc = "done" => result = Returned(FALSE, FALSE, CtxErr)

\* the call returned ctx.Err() with part of the delay still to run
C9_Witness ==
    /\ cancelInSleep /\ rpc = "done" /\ timer > 0
    /\ result = Returned(FALSE, FALSE, CtxErr)
    /\ invocations = invAtCancel /\ invocations = 1

\* C10: every call of CreateChatCompletionStream returns "retry not supported
\* for streaming" and sends nothing: each request the client sent is one of
\* CreateChatCompletion's attempts.
C10_StreamRetryRefused ==
    nStream > 0 =>
        /\ streamErr = "retry not supported for streaming"
        /\ invocations = Len(outcomes)

C10_Witness ==
    /\ nStream >= 1 /\ MaxRetries >= 1 /\ RetryableErrors # {}
    /\ streamErr = "retry not supported for streaming"
    /\ invocations = 0

\* the smaller of two numbers
Min(a, b) == IF a < b THEN a ELSE b

\* C39: a sleep starts only before a retry (attempt n, 1 <= n <= MaxRetries,
\* after n requests), and its delay lies within JitterFactor (in percent) of
\* min(InitialDelay x BackoffFactor^(n-1), MaxDelay); there are never more
\* sleeps than requests, and a call that has returned without having been
\* cancelled has slept once less than it has sent requests.
C39_DelayWithinJitter ==
    /\ [][sleeps' # sleeps =>
            /\ attempt >= 1 /\ attempt <= MaxRetries /\ invocations = attempt
            /\ LET nominal == Min(InitialDelay * Pow(BackoffFactor, attempt - 1),
                                  MaxDelay)
               IN  /\ 100 * timer' >= nominal * (100 - JitterFactor)
                   /\ 100 * timer' <= nominal * (100 + JitterFactor)]_vars
    /\ [](/\ sleeps <= invocations
          /\ (rpc = "done" /\ result.err # CtxErr) => sleeps = invocations - 1)

\* the jitter has pushed the delay of a retry above MaxDelay
C39_Witness ==
    /\ rpc = "select" /\ attempt >= 1
    /\ MaxDelay > 0 /\ timer > MaxDelay

\* C40: with MaxDelay left at zero the delay before the first retry lies
\* within JitterFactor (in percent) of InitialDelay.
C40_UnsetMaxDelayUncapped ==
    [][(sleeps' # sleeps /\ MaxDelay = 0 /\ attempt = 1) =>
          /\ 100 * timer' >= InitialDelay * (100 - JitterFactor)
          /\ 100 * timer' <= InitialDelay * (100 + JitterFactor)]_vars


\* ------------------------------------- claims on the concurrent dispatcher

WorkersOf(d) == {w \in WorkerIds : w[1] = d /\ w[2] < Len(requests[d])}

\* the workers whose operation is running: a single-shot request, or a stream
\* being created, read or forwarded
InFlight ==
    {w \in WorkerIds : \/ wpc[w] \in {"request", "create", "read"}
                       \/ wpc[w] = "send" /\ held[w]}

Holders == {w \in WorkerIds : held[w]}

\* C11: at every moment at most maxConcurrency operations of the client's
\* dispatch calls are running, whichever calls they belong to.
C11_AtMostMaxConcurrency == Cardinality(InFlight) <= maxConcurrency

\* a streaming and a single-shot dispatch overlap on a client with two slots:
\* one operation of each runs, and a third worker waits for a slot
C11_Witness ==
    /\ maxConcurrency = 2 /\ kind[1] = "stream" /\ kind[2] = "single"
    /\ <<1, 0>> \in InFlight /\ <<2, 0>> \in InFlight
    /\ wpc[<<1, 1>>] = "wait"

\* C12: when CreateChatCompletionsConcurrent has returned, every worker has
\* ended, and the slice has one entry per request: entry i has Index i and
\* holds the response to requests[i] or an error.
C12_ResultsInInputOrder ==
    \A d \in Dispatches :
        (kind[d] = "single" /\ dstate[d] = "returned") =>
            /\ \A w \in WorkersOf(d) : wpc[w] = "done"
            /\ Len(results[d]) = Len(requests[d])
            /\ \A i \in 1..Len(requests[d]) :
                   /\ results[d][i].Index = i - 1
                   /\ \/ results[d][i].Error = "nil"
                         /\ results[d][i].Response = requests[d][i]
                      \/ results[d][i].Error # "nil"
                         /\ results[d][i].Response = 0

\* two requests, the first answered, the second failed
C12_Witness ==
    /\ kind[1] = "single" /\ dstate[1] = "returned" /\ Len(requests[1]) = 2
    /\ results[1][1] = ChatCompletionResult(requests[1][1], "nil", 0)
    /\ results[1][2] = ChatCompletionResult(0, "err", 1)

\* the workers of single-shot dispatches that left the select through
\* <-ctx.Done(): only they store ctx.Err()
CancelledWaiters ==
    {w \in WorkerIds : /\ kind[w[1]] = "single"
                       /\ wpc[w] \in {"wgdone", "done", "release"}
                       /\ w[2] < Len(results[w[1]])
                       /\ results[w[1]][w[2] + 1].Error = "ctx"}

\* C13: a worker whose wait for a slot was ended by cancellation has stored
\* ctx.Err() under its own index, has not invoked the operation, holds no
\* slot and goes on to end without touching the semaphore (whose tokens are
\* exactly the slots held).
C13_CancelledWaiter ==
    /\ \A w \in CancelledWaiters :
           /\ results[w[1]][w[2] + 1] = ChatCompletionResult(0, "ctx", w[2])
           /\ opCount[w] = 0
           /\ ~held[w]
           /\ wpc[w] \in {"wgdone", "done"}
    /\ semaphore = Cardinality(Holders)

\* one slot, held by the first worker; the second worker gave up on
\* cancellation, and the first one's request then ran
C13_Witness ==
    /\ maxConcurrency = 1 /\ kind[1] = "single" /\ dstate[1] = "returned"
    /\ Len(requests[1]) = 2
    /\ <<1, 1>> \in CancelledWaiters
    /\ opCount[<<1, 0>>] = 1 /\ opCount[<<1, 1>>] = 0

\* C14: a worker that has ended holds no slot, so no slot is held by a
\* dispatch that has returned (or closed its channel), and the semaphore
\* holds exactly one token per slot held.
C14_SlotsReleased ==
    /\ \A w \in WorkerIds : wpc[w] \in {"wgdone", "done"} => ~held[w]
    /\ \A d \in Dispatches :
           dstate[d] = "returned" => \A w \in WorkersOf(d) : ~held[w]
    /\ semaphore = Cardinality(Holders)
    /\ (\A d \in Dispatches : dstate[d] \in {"idle", "returned"}) => semaphore = 0

\* a streaming dispatch whose stream ended with an error and a single-shot
\* dispatch have both finished after using slots
C14_Witness ==
    /\ kind[1] = "stream" /\ chanClosed /\ dstate[2] = "returned"
    /\ opCount[<<1, 0>>] = 1 /\ opCount[<<2, 0>>] = 1
    /\ Len(sentLog[0]) = 2 /\ sentLog[0][2].Error = "err"
    /\ semaphore = 0

Finals(log) == {k \in 1..Len(log) : log[k].Final}

\* C15: for every index, a final result is the last thing sent for it, so
\* there is at most one; once the channel is closed there is exactly one.
C15_OneFinalPerIndex ==
    kind[1] = "stream" =>
        \A i \in DOMAIN sentLog :
            /\ Finals(sentLog[i]) \subseteq {Len(sentLog[i])}
            /\ chanClosed => Finals(sentLog[i]) = {Len(sentLog[i])}

\* index 0 was cancelled while waiting, index 1 streamed a chunk to its end
C15_Witness ==
    /\ kind[1] = "stream" /\ chanClosed /\ Len(requests[1]) = 2
    /\ sentLog[0] = <<StreamingResult(0, "ctx", 0, TRUE)>>
    /\ sentLog[1] = <<StreamingResult(1, "nil", 1, FALSE),
                      StreamingResult(0, "nil", 1, TRUE)>>

\* C16: when the channel is closed every worker has ended after sending its
\* final result, and no send ever hits the closed channel.
C16_ClosedAfterAllFinals ==
    /\ ~sendOnClosed
    /\ (kind[1] = "stream" /\ chanClosed) =>
           \A w \in WorkersOf(1) :
               /\ wpc[w] = "done"
               /\ Finals(sentLog[w[2]]) # {}

\* closed with results still in the buffer
C16_Witness ==
    /\ kind[1] = "stream" /\ chanClosed /\ Len(requests[1]) = 2
    /\ Len(resultChan) = 2

\* C17: what was received for an index is, in order, the chunks its stream
\* produced (chunk k of the stream is the k-th received), then its final
\* result.
C17_OrderWithinIndex ==
    kind[1] = "stream" =>
        \A i \in DOMAIN recvLog :
            \A k \in 1..Len(recvLog[i]) :
                IF recvLog[i][k].Final THEN k = Len(recvLog[i])
                                       ELSE recvLog[i][k].Stream = k

\* results of the two indices interleave: 0, 1, 0 ...
C17_Witness ==
    /\ kind[1] = "stream" /\ Len(requests[1]) = 2
    /\ recvLog[0] = <<StreamingResult(1, "nil", 0, FALSE)>>
    /\ resultChan = <<StreamingResult(1, "nil", 1, FALSE),
                      StreamingResult(2, "nil", 0, FALSE)>>


\* every index of the streaming dispatch has had its final result received
AllFinalsReceived ==
    \A i \in DOMAIN recvLog : Finals(recvLog[i]) # {}

\* C18: under FairStream (the consumer keeps receiving, every stream creation
\* and read returns, streams end) a streaming dispatch that was started leads
\* to the channel being closed with the final result of every index received,
\* whether the requests are fewer or more than maxConcurrency.
C18_StreamTerminates ==
    (kind[1] = "stream" /\ dstate[1] = "spawning")
        ~> (chanClosed /\ AllFinalsReceived /\ resultChan = <<>>)

\* more requests than slots, no cancellation: the second worker had to wait
\* for the first one's slot, and both streams were delivered to their end
C18_Witness ==
    /\ maxConcurrency = 1 /\ Len(requests[1]) = 2 /\ ~cancelled[1]
    /\ chanClosed /\ AllFinalsReceived /\ resultChan = <<>>
    /\ Len(recvLog[0]) = 3 /\ Len(recvLog[1]) = 2

\* C35: once the context of a streaming dispatch is cancelled, the channel
\* is eventually closed with every semaphore slot released, whether or not
\* the consumer goes on receiving.
C35_CancelEndsStreamDispatch ==
    (kind[1] = "stream" /\ dstate[1] = "spawning" /\ cancelled[1])
        ~> (chanClosed /\ Holders = {})

\* ---------------------------------------- claims on the batch processor

\* the number of the batch that holds the k-th request of the list
BatchOf(k) == ((k - 1) \div batchSize) + 1

\* the requests up to the end of batch b
UpToBatch(b) ==
    IF b * batchSize < Len(bRequests) THEN b * batchSize ELSE Len(bRequests)

\* batch b of the list: the requests after batch b - 1, up to the end of b
ExpectedBatch(b) ==
    [i \in 1..(UpToBatch(b) - (b - 1) * batchSize) |->
        bRequests[(b - 1) * batchSize + i]]

\* C19: while the context is not cancelled, the callbacks made so far are
\* those of the first requests of the list, once each and in input order,
\* request k being in batch (k-1) div batchSize + 1; a batch is running only
\* when every callback of the batches before it has been made, and it is the
\* next batchSize requests (fewer at the end of the list); when ProcessBatch
\* has returned, every request has had its callback.
C19_BatchesInOrder ==
    ~cancelled[1] =>
        /\ Len(callbacks) <= Len(bRequests)
        /\ \A k \in 1..Len(callbacks) :
               /\ callbacks[k].Request = bRequests[k]
               /\ callbacks[k].Batch = BatchOf(k)
               /\ callbacks[k].Result.Response \in {0, bRequests[k]}
        /\ (bpc = "dispatch" /\ dstate[1] = "spawning") =>
               /\ Len(callbacks) = (batches - 1) * batchSize
               /\ requests[1] = ExpectedBatch(batches)
        /\ (\E w \in WorkerIds : wpc[w] \notin {"none", "done"}) =>
               (bpc = "dispatch" /\ dstate[1] = "spawning")
        /\ bpc = "returned" =>
               (bRet = "nil" /\ Len(callbacks) = Len(bRequests))

\* three requests in batches of two: a full batch and a shorter last one
C19_Witness ==
    /\ ~cancelled[1] /\ bpc = "returned" /\ bRet = "nil"
    /\ Len(bRequests) = 3 /\ batchSize = 2 /\ batches = 2
    /\ Len(callbacks) = 3 /\ callbacks[3].Batch = 2

\* C20: once a check after a batch has found the context cancelled,
\* ProcessBatch has returned ctx.Err(), no worker runs and the callbacks made
\* are those of the batches dispatched so far; ProcessBatch returns nil only
\* if no check found the context cancelled, and then after every callback.
C20_CancelBetweenBatches ==
    /\ bSeenCancel =>
           /\ bpc = "returned" /\ bRet = "ctx"
           /\ dstate[1] = "returned"
           /\ \A w \in WorkerIds : wpc[w] \in {"none", "done"}
           /\ Len(callbacks) = UpToBatch(batches)
           /\ \A k \in 1..Len(callbacks) : callbacks[k].Batch <= batches
    /\ bRet = "ctx" => bSeenCancel
    /\ bRet = "nil" => (~bSeenCancel /\ Len(callbacks) = Len(bRequests))

\* cancelled during the first of two batches: the first batch's callbacks
\* are made, the second batch is never dispatched
C20_Witness ==
    /\ bSeenCancel /\ bRet = "ctx" /\ batches = 1
    /\ Len(bRequests) = 3 /\ batchSize = 2 /\ Len(callbacks) = 2


\* C36: the Index of the result given to the k-th callback is the position
\* (from 0) of its request in the list given to ProcessBatch.
C36_IndexInRequestList ==
    \A k \in 1..Len(callbacks) :
        callbacks[k].Request = bRequests[k] => callbacks[k].Result.Index = k - 1

\* --------------------------------------------- claims on the stream readers

\* the events the parser had returned before the k-th Read
UptoBefore(k) == IF k = 1 THEN 0 ELSE readLog[k - 1].upto

\* the k-th Read ended on an event of the stream (not on an error of the
\* parser), and that event is the next one of the stream
OnEvent(k) == readLog[k].perr = ErrNil
NextEvent(k) ==
    /\ readLog[k].upto \in (UptoBefore(k) + 1)..Len(payloads)
    /\ readLog[k].data = payloads[readLog[k].upto]

ChunkPayloads == {<<"j1">>, <<"j2">>}
ChunkOf(payload) == Chunk(IF payload = <<"j1">> THEN 1 ELSE 2, NoError)

\* N chunk events, then the [DONE] event
WellFormed ==
    /\ payloads # <<>>
    /\ payloads[Len(payloads)] = <<"[DONE]">>
    /\ \A i \in 1..(Len(payloads) - 1) : payloads[i] \in ChunkPayloads

\* C21: on a stream of N chunk events and a [DONE] event, the k-th Read
\* returns the chunk of the k-th event for k <= N, and Read N + 1 returns
\* io.EOF; on no stream is a [DONE] event returned as a chunk.
C21_ChunksThenEndOfStream ==
    /\ WellFormed =>
           \A k \in 1..Len(readLog) :
               /\ k < Len(payloads) =>
                      /\ readLog[k].chunk = ChunkOf(payloads[k])
                      /\ readLog[k].err.kind = ErrNil
               /\ k = Len(payloads) =>
                      /\ readLog[k].chunk.nil
                      /\ readLog[k].err.kind = EOF
    /\ \A k \in 1..Len(readLog) :
           (OnEvent(k) /\ readLog[k].data = <<"[DONE]">>) => readLog[k].chunk.nil

\* two chunks, the second one first, and [DONE]: three Reads made
C21_Witness ==
    /\ payloads = << <<"j2">>, <<"j1">>, <<"[DONE]">> >>
    /\ Len(readLog) = 3
    /\ readLog[1].chunk.id = 2 /\ readLog[2].chunk.id = 1
    /\ readLog[3].err.kind = EOF

\* C22: every Read returns a chunk or an error (io.EOF being end-of-stream),
\* never both, and once a Read has returned io.EOF every later Read returns
\* io.EOF and no chunk.
C22_EndOfStreamTerminal ==
    \A k \in 1..Len(readLog) :
        /\ readLog[k].chunk.nil <=> readLog[k].err.kind # ErrNil
        /\ (\E j \in 1..(k - 1) : readLog[j].err.kind = EOF) =>
               (readLog[k].err.kind = EOF /\ readLog[k].chunk.nil)

\* C23: a Read of the chat reader that ends on an event whose JSON text has a
\* top-level error object returns no chunk and the error "openrouter error"
\* with the code and the message of that object.
C23_TopLevelError ==
    \A k \in 1..Len(readLog) :
        (/\ readerKind = "chat"
         /\ OnEvent(k)
         /\ readLog[k].data \in {<<"jTop">>, <<"jBoth">>}) =>
            /\ NextEvent(k)
            /\ readLog[k].chunk.nil
            /\ readLog[k].err.kind = "openrouter error"
            /\ readLog[k].err.Code = Json(readLog[k].data[1]).error.Code
            /\ readLog[k].err.Message = Json(readLog[k].data[1]).error.Message

\* a chunk, then an error object with code 500
C23_Witness ==
    /\ readerKind = "chat"
    /\ payloads = << <<"j1">>, <<"jTop">> >>
    /\ Len(readLog) = 2
    /\ ~readLog[1].chunk.nil
    /\ readLog[2].err = ReadError("openrouter error", 500, "internal")

\* C24: a Read that ends on an event whose data is no JSON (nor [DONE], nor a
\* keep-alive) returns a decode error and no chunk; the Reads that follow it
\* end on the following events, return the chunk of a chunk event, and
\* return io.EOF when the parser finds the end of the input.
C24_DecodeErrorThenUsable ==
    \A k \in 1..Len(readLog) :
        (OnEvent(k) /\ readLog[k].data = <<"x">>) =>
            /\ NextEvent(k)
            /\ readLog[k].chunk.nil
            /\ readLog[k].err = DecodeError
            /\ \A j \in (k + 1)..Len(readLog) :
                   /\ OnEvent(j) => NextEvent(j)
                   /\ (OnEvent(j) /\ readLog[j].data \in ChunkPayloads) =>
                          /\ readLog[j].chunk = ChunkOf(readLog[j].data)
                          /\ readLog[j].err.kind = ErrNil
                   /\ readLog[j].perr = EOF =>
                          /\ readLog[j].upto = Len(payloads)
                          /\ readLog[j].err.kind = EOF

\* text that is no JSON, then a chunk, then the end of the input
C24_Witness ==
    /\ payloads = << <<"x">>, <<"j1">> >>
    /\ Len(readLog) = 3
    /\ readLog[1].err = DecodeError
    /\ readLog[2].chunk = ChunkOf(<<"j1">>)
    /\ readLog[3].err.kind = EOF

\* data that begins with ": "
BeginsColonSpace(data) == Len(data) >= 2 /\ data[1] = ":" /\ data[2] = " "

\* C25: for either reader, the events a Read call passes over are exactly
\* the events whose data begins with ": " that come next in the stream, as
\* many as there are; the call ends on the event after them (or on what the
\* parser returns then), and never on one of them.
C25_KeepAliveSkipped ==
    \A k \in 1..Len(readLog) :
        /\ readLog[k].upto \in UptoBefore(k)..Len(payloads)
        /\ OnEvent(k) =>
               /\ NextEvent(k)
               /\ ~BeginsColonSpace(readLog[k].data)
               /\ readLog[k].skipped = readLog[k].upto - UptoBefore(k) - 1
               /\ \A i \in (UptoBefore(k) + 1)..(readLog[k].upto - 1) :
                      BeginsColonSpace(payloads[i])
        /\ ~OnEvent(k) =>
               /\ readLog[k].skipped = readLog[k].upto - UptoBefore(k)
               /\ \A i \in (UptoBefore(k) + 1)..readLog[k].upto :
                      BeginsColonSpace(payloads[i])

\* two keep-alive events in a row, then a chunk: one Read of the completion
\* reader returns the chunk
C25_Witness ==
    /\ readerKind = "completion"
    /\ payloads = << <<":", " ", "k">>, <<":", " ", "k">>, <<"j1">> >>
    /\ Len(readLog) = 1
    /\ readLog[1].skipped = 2
    /\ readLog[1].chunk = ChunkOf(<<"j1">>)

EndReached(k) == \E j \in 1..(k - 1) : parseLog[j].how = "eof"

\* C27: an event pending at the end of the input is returned once, and every
\* call made after a call has reached the end of the input returns io.EOF, the
\* end-of-stream outcome, and no event.
C27_EndOfStreamRepeats ==
    /\ Cardinality({k \in 1..Len(parseLog) :
                       parseLog[k].how = "eof" /\ parseLog[k].err = ErrNil}) <= 1
    /\ \A k \in 1..Len(parseLog) : EndReached(k) => parseLog[k].err = EOF

\* a line the claim C28 is about: it starts with a colon, or it has no colon
\* (and is not made of white space only, which makes it an empty line)
CommentOrNoColon(raw) ==
    /\ raw # <<>>
    /\ \/ raw[1] = ":"
       \/ /\ \A i \in 1..Len(raw) : raw[i] # ":"
          /\ \E i \in 1..Len(raw) : ~IsSpace(raw[i])

\* C28: the step of ParseNext that reads a comment line or a line without a
\* colon leaves the call in its loop, with the same dataBuffer and the same
\* event, and returns nothing, whatever was accumulated before.
C28_SkippedLinesChangeNothing ==
    [][(/\ ppc = "loop"
        /\ pos < Len(lines)
        /\ CommentOrNoColon(lines[pos + 1])
        /\ pos' = pos + 1)
          => (/\ ppc' = "loop"
              /\ dataBuffer' = dataBuffer
              /\ event' = event
              /\ values' = values
              /\ closed' = closed
              /\ pOutcome' = pOutcome
              /\ parseLog' = parseLog)]_vars

\* a comment line and a line without a colon between two data lines of one
\* event: the event holds both values
C28_Witness ==
    /\ lines = << <<"data", ":", " ", "a">>, <<":", " ", "c">>, <<"x">>,
                  <<" ", "data", ":", "b", " ">> >>
    /\ Len(parseLog) = 1
    /\ parseLog[1].err = ErrNil
    /\ parseLog[1].event.Data = <<"a", "\n", "b">>

\* the values joined by single newlines
RECURSIVE JoinNewline(_)
JoinNewline(vs) ==
    IF vs = <<>> THEN <<>>
    ELSE IF Len(vs) = 1 THEN vs[1]
    ELSE vs[1] \o <<"\n">> \o JoinNewline(Tail(vs))

\* the values without the empty ones at their head
RECURSIVE DropEmptyHead(_)
DropEmptyHead(vs) ==
    IF vs # <<>> /\ vs[1] = <<>> THEN DropEmptyHead(Tail(vs)) ELSE vs

\* C29 as stated: the data of every returned event is the data values read
\* in the call, in order, joined by single newlines, and an event returned at
\* a blank line has at least one data value and is not empty.
C29_DataIsValuesJoined ==
    \A k \in 1..Len(parseLog) :
        parseLog[k].err = ErrNil =>
            /\ parseLog[k].event.Data = JoinNewline(parseLog[k].values)
            /\ parseLog[k].how = "blank" =>
                   (parseLog[k].values # <<>> /\ parseLog[k].event.Data # <<>>)

\* C29 amended: the data of a returned event is the data values read in the
\* call, without the empty values that come before the first non-empty one,
\* joined by single newlines; a blank line returns the event exactly when
\* that text is not empty, and otherwise the loop goes on.
C29_DataIsBufferJoined ==
    [][/\ (Len(parseLog') > Len(parseLog) /\ pOutcome'.err = ErrNil) =>
              /\ pOutcome'.event.Data = JoinNewline(DropEmptyHead(values))
              /\ pOutcome'.event.Data # <<>>
       /\ (/\ ppc = "loop"
           /\ pos < Len(lines)
           /\ TrimSpace(lines[pos + 1]) = <<>>
           /\ pos' = pos + 1)
             => /\ (ppc' = "returned") <=> (JoinNewline(DropEmptyHead(values)) # <<>>)
                /\ ppc' = "loop" => (parseLog' = parseLog /\ dataBuffer' = dataBuffer)
      ]_vars

\* an empty data value, then two values, then a blank line: the event holds
\* the two values with one newline between them; an empty line came first
C29_Witness ==
    /\ lines = << <<>>, <<"data", ":">>, <<"data", ":", " ", "a">>,
                  <<" ", "data", ":", "b", " ">> >>
    /\ Len(parseLog) = 1
    /\ parseLog[1].values = << <<>>, <<"a">>, <<"b">> >>
    /\ parseLog[1].event.Data = <<"a", "\n", "b">>


\* the non-empty values of the data lines among the raw lines rs, in order
RECURSIVE DataValuesOf(_)
DataValuesOf(rs) ==
    IF rs = <<>> THEN <<>>
    ELSE LET l == TrimSpace(Head(rs))
             isData == l # <<>> /\ ~Skipped(l) /\ Field(l) = <<"data">>
         IN  (IF isData /\ Value(l) # <<>> THEN <<Value(l)>> ELSE <<>>)
                 \o DataValuesOf(Tail(rs))

\* the non-empty pieces of a text between its newlines, in order
RECURSIVE SplitNewline(_)
SplitNewline(d) ==
    IF d = <<>> THEN <<>>
    ELSE IF \E i \in 1..Len(d) : d[i] = "\n"
      THEN LET i == Index(d, "\n")
           IN  (IF i > 0 THEN <<SubSeq(d, 1, i)>> ELSE <<>>)
                   \o SplitNewline(SubSeq(d, i + 2, Len(d)))
      ELSE <<d>>

\* the non-empty data values the events returned by the first n calls hold
RECURSIVE ReturnedValues(_)
ReturnedValues(n) ==
    IF n = 0 THEN <<>>
    ELSE ReturnedValues(n - 1) \o
           (IF parseLog[n].err = ErrNil THEN SplitNewline(parseLog[n].event.Data)
                                        ELSE <<>>)

\* C37: once the parser has reached the end of the input, the non-empty
\* values of all data lines of the input, the text after the last line end
\* included, are the values the returned events hold, each once and in order.
C37_NoDataLost ==
    closed => ReturnedValues(Len(parseLog)) = DataValuesOf(Append(lines, tail))

\* ------------------------------------------ claims on the CancellableReader

C31_UnderlyingClosedOnce ==
    /\ [](/\ uCloses <= 1
          /\ closeLog # <<>> => uCloses = 1
          /\ \A k \in 2..Len(closeLog) : closeLog[k].ret = "nil")
    /\ [][closeLog # <<>> => UNCHANGED <<crClosed, crCtx, uCloses>>]_vars

\* the Close of a cancelled Read and the two calls of the other goroutine
\* have all returned
C31_Witness ==
    /\ Len(closeLog) = 3
    /\ \E k \in 1..3 : closeLog[k].who = "reader"
    /\ closeLog[1].ret = "reader.Close()"
    /\ uCloses = 1

\* C38: a background read never writes into the buffer of a Read call that
\* has returned.
C38_NoWriteAfterReturn == ~lateWrite

\* --------------------------------- claims on Client.CreateChatCompletionStream

\* C32: a Read that is called after the context of the request was cancelled
\* returns no chunk.
C32_ReadAfterCancelFails ==
    \A k \in 1..Len(readLog) : readLog[k].afterCancel => readLog[k].chunk.nil

=============================================================================
